---- MODULE Spec2Model ----
(***************************************************************************)
(* HyperTunnel (abrekhov/hypertunnel): the transport bring-up of           *)
(* cmd.Connection, the sender's chunk loop, the receiver's data-channel    *)
(* handlers and the ICE role negotiator, as a state machine.               *)
(*                                                                         *)
(* Two processes run Connection: "snd" (started with -f <file>, so         *)
(* isOffer = true) and "rcv" (no -f).  Strings and file contents are       *)
(* sequences of small naturals; strings.Compare is the byte-wise           *)
(* lexicographic order on them.                                            *)
(***************************************************************************)
EXTENDS Integers, Sequences, FiniteSets, TLC

(* ---- bounds of the model ---- *)
\* longest source file, in bytes
MaxFileLen == 3
\* size of the sender's chunk buffer (65534 in the program, scaled down)
ChunkSize == 2
\* longest ufrag / password / fingerprint string of the role negotiator's inputs
MaxStrLen == 2
\* lines on standard input before EOF
MaxLines == 4
\* calls of Update per goroutine, and the largest n of one call
MaxUpdates == 2
MaxAmount == 2
\* the largest --signal-timeout, in ticks of 100 ms
MaxPollTimeout == 2
\* the largest --buffer of encrypt and decrypt, in bytes
MaxBuffer == 2
\* longest file name of a Metadata or an archive entry, in characters
MaxNameLen == 4
\* calls made on one Transfer, messages sent to one tui Model
MaxCalls == 4

Peers == {"snd", "rcv"}
Other(p) == IF p = "snd" THEN "rcv" ELSE "snd"
Bytes == {0, 1}
Running == 0 - 1
\* the target path names no file (file contents hold bytes >= 0 only)
NoFile == <<0 - 1>>
\* the content of a file already at the target path (no transferred byte is 7)
ExistingFile == <<7>>
NoSignal == [kind |-> "none"]

\* all sequences over S of length at most n
SeqsUpTo(S, n) == UNION {[1..k -> S] : k \in 0..n}

IsPrefix(a, b) == Len(a) <= Len(b) /\ SubSeq(b, 1, Len(a)) = a

Min(a, b) == IF a < b THEN a ELSE b

(* ---- strings.Compare: -1, 0 or +1 by byte-wise lexicographic order ---- *)
RECURSIVE Compare(_, _)
Compare(a, b) ==
    IF a = <<>> /\ b = <<>> THEN 0
    ELSE IF a = <<>> THEN -1
    ELSE IF b = <<>> THEN 1
    ELSE IF Head(a) < Head(b) THEN -1
    ELSE IF Head(a) > Head(b) THEN 1
    ELSE Compare(Tail(a), Tail(b))

(* ---- pkg/datachannel: the symmetric role negotiator ---- *)
\* ICE parameters are [ufrag, pwd]; DTLS parameters are [fps], the list of
\* fingerprint values.
DetermineICERole(localParams, remoteParams) ==
    LET comparison == Compare(localParams.ufrag, remoteParams.ufrag)
    IN  IF comparison > 0 THEN "controlling" ELSE "controlled"

\* a negotiator that forgets the inner comparison when the ufrags differ
DetermineICERoleWithDTLS_NoOrder(localParams, remoteParams, localDTLS, remoteDTLS) ==
    LET comparison == Compare(localParams.ufrag, remoteParams.ufrag)
    IN  IF comparison # 0 THEN "controlling"
        ELSE IF Len(localDTLS.fps) > 0 /\ Len(remoteDTLS.fps) > 0
             THEN IF Compare(localDTLS.fps[1], remoteDTLS.fps[1]) > 0
                  THEN "controlling" ELSE "controlled"
             ELSE "controlled"

\* a negotiator that resolves a fingerprint tie in favour of the caller
DetermineICERoleWithDTLS_TieControlling(localParams, remoteParams, localDTLS, remoteDTLS) ==
    LET comparison == Compare(localParams.ufrag, remoteParams.ufrag)
    IN  IF comparison # 0
        THEN IF comparison > 0 THEN "controlling" ELSE "controlled"
        ELSE IF Len(localDTLS.fps) > 0 /\ Len(remoteDTLS.fps) > 0
             THEN IF Compare(localDTLS.fps[1], remoteDTLS.fps[1]) >= 0
                  THEN "controlling" ELSE "controlled"
             ELSE "controlled"

DetermineICERoleWithDTLS(localParams, remoteParams, localDTLS, remoteDTLS) ==
    LET comparison == Compare(localParams.ufrag, remoteParams.ufrag)
    IN  IF comparison # 0
        THEN IF comparison > 0 THEN "controlling" ELSE "controlled"
        ELSE IF Len(localDTLS.fps) > 0 /\ Len(remoteDTLS.fps) > 0
             THEN LET fingerprintComparison ==
                          Compare(localDTLS.fps[1], remoteDTLS.fps[1])
                  IN  IF fingerprintComparison > 0
                      THEN "controlling" ELSE "controlled"
             ELSE "controlled"

VARIABLES
    pc,           \* per peer: the last bring-up step of Connection that returned
    exitCode,     \* per peer: Running, or the process's exit code
    steps,        \* per peer: the bring-up steps started so far, in order
    failedStep,   \* per peer: the step that returned an error, or "none"
    signal,       \* per peer: the local Signal assembled after gathering
    emitted,      \* per peer: the local signal has been written out
    remoteSignal, \* per peer: the decoded remote Signal
    startedRole,  \* per peer: the role handed to ice.Start
    autoAccept,   \* datachannel.AutoAccept of the receiver
    src,          \* content of the sender's source file
    offset,       \* the sender's read position in src
    sndLoop,      \* the sender's OnOpen goroutine: idle, reading, waiting, done
    readEnd,      \* how the read loop ended: none, eof, err
    handed,       \* concatenation of the payloads handed to channel.Send
    sent,         \* concatenation of the payloads channel.Send accepted
    sendErrSeen,  \* a channel.Send has returned an error
    lateSend,     \* a chunk was handed to Send after a read or send error
    sndFdOpen,    \* the sender's source file handle is open
    chan,         \* the data channel: none, open, closed
    closedBy,     \* who closed the channel: none, sender, transport
    closedAfterEOF, \* the channel closed after the sender had read EOF
    inflight,     \* messages accepted by Send and not yet delivered
    rcvMode,      \* receiver's handler: none, file, archive, or a member of Ignored
    target,       \* content of the receiver's target file, or NoFile
    rcvFdOpen,    \* the receiver's target file handle is open
    progress,     \* transferred-bytes of the receiver's Progress
    writeErrSeen, \* an fd.Write of the receiver has returned an error
    label,        \* the data channel's label, as name parts
    buf,          \* archive mode: the receiver's in-memory buffer
    extractLog,   \* archive mode: the calls of ExtractTarGz (buffer, target, result)
    negA, negB,   \* inputs of the role negotiator (RoleSpec)
    negRole,      \* its results for (A,B) and (B,A)
    ask,          \* one call of askForConfirmation (PromptSpec)
    srcKind,      \* what the sender's path names: file, dir or missing
    codec,        \* one EncodeCompact/DecodeCompact round trip (CodecSpec)
    prog,         \* goroutines updating and reading one Progress (ProgressSpec)
    poll,         \* one call of readSignalFromFile (PollSpec)
    aes,          \* one encryptFile/decryptFile round trip (CryptSpec)
    call          \* one call of a path function and its result (PathSpec)

connVars == <<pc, exitCode, steps, failedStep, signal, emitted, remoteSignal,
              startedRole>>
sndVars == <<src, offset, sndLoop, readEnd, handed, sent, sendErrSeen, lateSend,
             sndFdOpen>>
chanVars == <<chan, closedBy, closedAfterEOF, inflight>>
rcvVars == <<autoAccept, rcvMode, target, rcvFdOpen, progress, writeErrSeen,
             label, buf, extractLog>>
negVars == <<negA, negB, negRole>>
askVars == <<ask>>
envVars == <<srcKind>>
codecVars == <<codec>>
libVars == <<prog, poll, aes, call>>
vars == <<connVars, sndVars, chanVars, rcvVars, negVars, askVars, envVars, codecVars,
          libVars>>

\* Connection: file == "" selects the receiver, anything else the sender
isOffer(p) == p = "snd"

\* the bring-up steps of Connection in program order; the last is the sender's
Order == <<"checkSource", "construct", "gatherStart", "gatherDone", "emit",
           "readRemote", "setRemoteCandidates", "iceStart", "dtlsStart",
           "sctpStart", "newDataChannel">>

Rank(s) == IF s = "init" THEN 0
           ELSE IF s = "exited" THEN Len(Order) + 1
           ELSE CHOOSE i \in 1..Len(Order) : Order[i] = s

NoCodec == [phase |-> "idle"]

\* the library state of a run that does not use it
LibIdle ==
    /\ prog = [mode |-> "idle"]
    /\ poll = [phase |-> "idle"]
    /\ aes = [phase |-> "idle"]
    /\ call = [fn |-> "none"]

\* the prompt is idle: nothing on standard input, no call in progress
NoAsk == [stdin |-> <<>>, tries |-> 0, heard |-> <<>>, out |-> "idle"]

NegParams == [ice  : [ufrag : SeqsUpTo({1, 2}, MaxStrLen), pwd : {<<1>>, <<2>>}],
              dtls : [fps : SeqsUpTo({<<1>>, <<2>>}, 1)]]

NoParams == [ice |-> [ufrag |-> <<>>, pwd |-> <<>>], dtls |-> [fps |-> <<>>]]

ConnInit ==
    /\ pc = [p \in Peers |-> "init"]
    /\ exitCode = [p \in Peers |-> Running]
    /\ steps = [p \in Peers |-> <<>>]
    /\ failedStep = [p \in Peers |-> "none"]
    /\ signal = [p \in Peers |-> NoSignal]
    /\ emitted = [p \in Peers |-> FALSE]
    /\ remoteSignal = [p \in Peers |-> NoSignal]
    /\ startedRole = [p \in Peers |-> "none"]

TransferInit(files, existing, accepts) ==
    /\ src \in files
    /\ offset = 0
    /\ sndLoop = "idle"
    /\ readEnd = "none"
    /\ handed = <<>>
    /\ sent = <<>>
    /\ sendErrSeen = FALSE
    /\ lateSend = FALSE
    /\ sndFdOpen = FALSE
    /\ chan = "none"
    /\ closedBy = "none"
    /\ closedAfterEOF = FALSE
    /\ inflight = <<>>
    /\ autoAccept \in accepts
    /\ rcvMode = "none"
    /\ target \in existing
    /\ rcvFdOpen = FALSE
    /\ progress = 0
    /\ writeErrSeen = FALSE
    /\ label = <<>>
    /\ buf = <<>>
    /\ extractLog = <<>>

Init ==
    /\ ConnInit
    /\ TransferInit(SeqsUpTo(Bytes, MaxFileLen), {NoFile, ExistingFile}, BOOLEAN)
    /\ negA = NoParams /\ negB = NoParams /\ negRole = [fn |-> "none"]
    /\ ask = NoAsk
    /\ srcKind \in {"file", "dir", "missing"}
    /\ srcKind # "file" => src = <<>>
    /\ codec = NoCodec
    /\ LibIdle

(* ---- cmd.Connection: the bring-up, one action per call that can fail ---- *)
Fresh(p, name) == exitCode[p] = Running /\ pc[p] = name

\* the step returned nil: Connection goes on to the next statement
StepOK(p, name) ==
    /\ pc' = [pc EXCEPT ![p] = name]
    /\ steps' = [steps EXCEPT ![p] = Append(@, name)]
    /\ UNCHANGED <<exitCode, failedStep>>

\* os.Exit / panic inside the step
Die(p, name, code) ==
    /\ pc' = [pc EXCEPT ![p] = "exited"]
    /\ steps' = [steps EXCEPT ![p] = Append(@, name)]
    /\ exitCode' = [exitCode EXCEPT ![p] = code]
    /\ failedStep' = [failedStep EXCEPT ![p] = name]

\* an error handler that only logs the error and lets Connection go on
CheckErr_LogOnly(p, name) ==
    /\ pc' = [pc EXCEPT ![p] = name]
    /\ steps' = [steps EXCEPT ![p] = Append(@, name)]
    /\ failedStep' = [failedStep EXCEPT ![p] = name]
    /\ UNCHANGED exitCode

\* cobra.CheckErr(err) with err != nil: print the error, os.Exit(1)
CheckErr(p, name) == Die(p, name, 1)

\* log.Panicln: the panic ends the process with exit code 2
Panicln(p, name) == Die(p, name, 2)

\* lines 110-128: AutoAccept, mode selection, os.Stat of the source; the
\* sender panics when the path names nothing ("File does not exist.") or a
\* directory ("Directory is not yet supported")
CheckSource(p) ==
    /\ Fresh(p, "init")
    /\ IF isOffer(p) /\ srcKind # "file"
       THEN Panicln(p, "checkSource")
       ELSE StepOK(p, "checkSource")
    /\ UNCHANGED <<signal, emitted, remoteSignal, startedRole>>
    /\ UNCHANGED <<sndVars, chanVars, rcvVars, negVars, askVars, envVars, codecVars, libVars>>

\* lines 130-156: gatherer, ICE, DTLS, SCTP transports and the callbacks
Construct(p) ==
    /\ Fresh(p, "checkSource")
    /\ \/ StepOK(p, "construct")
       \/ CheckErr(p, "construct")
    /\ UNCHANGED <<signal, emitted, remoteSignal, startedRole>>
    /\ UNCHANGED <<sndVars, chanVars, rcvVars, negVars, askVars, envVars, codecVars, libVars>>

\* lines 159-160: gatherer.Gather()
Gather(p) ==
    /\ Fresh(p, "construct")
    /\ \/ StepOK(p, "gatherStart")
       \/ CheckErr(p, "gatherStart")
    /\ UNCHANGED <<signal, emitted, remoteSignal, startedRole>>
    /\ UNCHANGED <<sndVars, chanVars, rcvVars, negVars, askVars, envVars, codecVars, libVars>>

\* the certificate fingerprint of a peer's DTLS transport
LocalFingerprint(p) == IF p = "snd" THEN <<1>> ELSE <<2>>

\* the ufrags a peer's gatherer may have generated
LocalUfrags(p) == IF p = "snd" THEN {<<1>>, <<2>>} ELSE {<<1>>}

\* lines 162-179: <-gatherFinished, the local parameters, the Signal
GatherDone(p) ==
    /\ Fresh(p, "gatherStart")
    /\ \/ /\ StepOK(p, "gatherDone")
          /\ \E u \in LocalUfrags(p) :
                signal' = [signal EXCEPT ![p] =
                    [kind |-> "signal",
                     ice  |-> [ufrag |-> u, pwd |-> <<1>>],
                     dtls |-> [fps |-> <<LocalFingerprint(p)>>]]]
       \/ CheckErr(p, "gatherDone") /\ UNCHANGED signal
    /\ UNCHANGED <<emitted, remoteSignal, startedRole>>
    /\ UNCHANGED <<sndVars, chanVars, rcvVars, negVars, askVars, envVars, codecVars, libVars>>

\* lines 181-188: Encode, then fmt.Println (its result is discarded: the
\* program has no failure path there) or writeSignalToFile under CheckErr
EmitSignal(p) ==
    /\ Fresh(p, "gatherDone")
    /\ \E toFile \in BOOLEAN :
          \/ StepOK(p, "emit") /\ emitted' = [emitted EXCEPT ![p] = TRUE]
          \/ toFile /\ CheckErr(p, "emit") /\ UNCHANGED emitted
    /\ UNCHANGED <<signal, remoteSignal, startedRole>>
    /\ UNCHANGED <<sndVars, chanVars, rcvVars, negVars, askVars, envVars, codecVars, libVars>>

\* lines 191-204: read the remote blob (stdin, reader or polled file) and
\* Decode it.  A failed read ends in CheckErr, directly or, for MustReadStdin
\* returning "", in Decode's json.Unmarshal of the empty input.
ReadRemote(p) ==
    /\ Fresh(p, "emit")
    /\ \/ /\ emitted[Other(p)]
          /\ StepOK(p, "readRemote")
          /\ remoteSignal' = [remoteSignal EXCEPT ![p] = signal[Other(p)]]
       \/ CheckErr(p, "readRemote") /\ UNCHANGED remoteSignal
    /\ UNCHANGED <<signal, emitted, startedRole>>
    /\ UNCHANGED <<sndVars, chanVars, rcvVars, negVars, askVars, envVars, codecVars, libVars>>

\* lines 206-209: the role Connection hands to ice.Start
ConnectionICERole(p) == IF isOffer(p) THEN "controlling" ELSE "controlled"

\* lines 210-211: ice.SetRemoteCandidates
SetRemoteCandidates(p) ==
    /\ Fresh(p, "readRemote")
    /\ \/ StepOK(p, "setRemoteCandidates")
       \/ CheckErr(p, "setRemoteCandidates")
    /\ UNCHANGED <<signal, emitted, remoteSignal, startedRole>>
    /\ UNCHANGED <<sndVars, chanVars, rcvVars, negVars, askVars, envVars, codecVars, libVars>>

\* an ICE start that tries again after an error
ICEStart_Retry(p) ==
    /\ Fresh(p, "setRemoteCandidates")
    /\ startedRole' = [startedRole EXCEPT ![p] = ConnectionICERole(p)]
    /\ \/ StepOK(p, "iceStart")
       \/ /\ steps' = [steps EXCEPT ![p] = Append(@, "iceStart")]
          /\ Len(steps[p]) < Len(Order) + 1
          /\ UNCHANGED <<pc, exitCode, failedStep>>
    /\ UNCHANGED <<signal, emitted, remoteSignal>>
    /\ UNCHANGED <<sndVars, chanVars, rcvVars, negVars, askVars, envVars, codecVars, libVars>>

\* lines 213-216: ice.Start(gatherer, remoteSignal.ICEParameters, &iceRole)
ICEStart(p) ==
    /\ Fresh(p, "setRemoteCandidates")
    /\ startedRole' = [startedRole EXCEPT ![p] = ConnectionICERole(p)]
    /\ \/ StepOK(p, "iceStart")
       \/ CheckErr(p, "iceStart")
    /\ UNCHANGED <<signal, emitted, remoteSignal>>
    /\ UNCHANGED <<sndVars, chanVars, rcvVars, negVars, askVars, envVars, codecVars, libVars>>

\* lines 218-221: dtls.Start
DTLSStart(p) ==
    /\ Fresh(p, "iceStart")
    /\ \/ StepOK(p, "dtlsStart")
       \/ CheckErr(p, "dtlsStart")
    /\ UNCHANGED <<signal, emitted, remoteSignal, startedRole>>
    /\ UNCHANGED <<sndVars, chanVars, rcvVars, negVars, askVars, envVars, codecVars, libVars>>

\* lines 223-226: sctp.Start
SCTPStart(p) ==
    /\ Fresh(p, "dtlsStart")
    /\ \/ StepOK(p, "sctpStart")
       \/ CheckErr(p, "sctpStart")
    /\ UNCHANGED <<signal, emitted, remoteSignal, startedRole>>
    /\ UNCHANGED <<sndVars, chanVars, rcvVars, negVars, askVars, envVars, codecVars, libVars>>

\* the labels a sender gives its channel: info.Name() of a regular file
Labels == {<<"a">>, <<"a", ".tar.gz">>}

\* strings.HasSuffix
HasSuffix(s, suffix) ==
    Len(s) >= Len(suffix) /\ SubSeq(s, Len(s) - Len(suffix) + 1, Len(s)) = suffix

\* strings.TrimSuffix
TrimSuffix(s, suffix) ==
    IF HasSuffix(s, suffix) THEN SubSeq(s, 1, Len(s) - Len(suffix)) ELSE s

\* FileTransferHandler, lines 27-37
isArchive == HasSuffix(label, <<".tar.gz">>)

targetPath == IF isArchive THEN TrimSuffix(label, <<".tar.gz">>) ELSE label

\* an extraction target that keeps the archive suffix
destPath_KeepSuffix == <<"cwd">> \o label

\* filepath.Join(currentDir, targetPath)
destPath == <<"cwd">> \o targetPath

\* lines 228-277 (sender): os.Stat, api.NewDataChannel with Label info.Name()
\* (the source's base name, which may end with ".tar.gz"), OnOpen and OnClose
\* registered; then select {}
NewDataChannel(p) ==
    /\ isOffer(p)
    /\ Fresh(p, "sctpStart")
    /\ \/ /\ StepOK(p, "newDataChannel")
          /\ chan' = "open"
          /\ label' \in Labels
       \/ CheckErr(p, "newDataChannel") /\ UNCHANGED <<chan, label>>
    /\ UNCHANGED <<signal, emitted, remoteSignal, startedRole>>
    /\ UNCHANGED <<closedBy, closedAfterEOF, inflight>>
    /\ UNCHANGED <<autoAccept, rcvMode, target, rcvFdOpen, progress, writeErrSeen,
                   buf, extractLog>>
    /\ UNCHANGED <<sndVars, negVars, askVars, envVars, codecVars, libVars>>

(* ---- the sender's OnOpen goroutine and OnClose handler ---- *)
\* os.Exit outside the bring-up
Exit(p, code) ==
    /\ pc' = [pc EXCEPT ![p] = "exited"]
    /\ exitCode' = [exitCode EXCEPT ![p] = code]
    /\ UNCHANGED <<steps, failedStep>>

Connected == pc["snd"] = "newDataChannel" /\ pc["rcv"] = "sctpStart"

\* lines 245-249: the channel reports open; os.Open(file) under CheckErr
SndOnOpen ==
    /\ Connected /\ exitCode["snd"] = Running
    /\ chan = "open" /\ sndLoop = "idle"
    /\ \/ /\ sndLoop' = "reading" /\ sndFdOpen' = TRUE
          /\ UNCHANGED <<pc, exitCode, steps, failedStep>>
       \/ /\ Exit("snd", 1)
          /\ UNCHANGED <<sndLoop, sndFdOpen>>
    /\ UNCHANGED <<signal, emitted, remoteSignal, startedRole>>
    /\ UNCHANGED <<src, offset, readEnd, handed, sent, sendErrSeen, lateSend>>
    /\ UNCHANGED <<chanVars, rcvVars, negVars, askVars, envVars, codecVars, libVars>>

\* lines 250-261, one iteration that read n > 0 bytes: channel.Send(chunk[:n]);
\* a Send error is logged at debug level and the loop goes on
SndSendChunk ==
    /\ exitCode["snd"] = Running /\ sndLoop = "reading"
    /\ offset < Len(src)
    /\ \E n \in 1..Min(ChunkSize, Len(src) - offset) :
          LET payload == SubSeq(src, offset + 1, offset + n)
          IN  /\ offset' = offset + n
              /\ handed' = handed \o payload
              /\ lateSend' = (lateSend \/ sendErrSeen)
              /\ \/ /\ chan = "open"
                    /\ sent' = sent \o payload
                    /\ inflight' = Append(inflight, payload)
                    /\ UNCHANGED sendErrSeen
                 \/ /\ sendErrSeen' = TRUE
                    /\ UNCHANGED <<sent, inflight>>
    /\ UNCHANGED <<src, sndLoop, readEnd, sndFdOpen>>
    /\ UNCHANGED <<chan, closedBy, closedAfterEOF>>
    /\ UNCHANGED <<connVars, rcvVars, negVars, askVars, envVars, codecVars, libVars>>

\* lines 251-256: r.Read returned an error (io.EOF at the end of the file, or
\* a read error anywhere): the goroutine sleeps 30 seconds before it breaks
SndReadEnd ==
    /\ exitCode["snd"] = Running /\ sndLoop = "reading"
    /\ \/ offset = Len(src) /\ readEnd' = "eof"
       \/ readEnd' = "err"
    /\ sndLoop' = "waiting"
    /\ UNCHANGED <<src, offset, handed, sent, sendErrSeen, lateSend, sndFdOpen>>
    /\ UNCHANGED <<connVars, chanVars, rcvVars, negVars, askVars, envVars, codecVars, libVars>>

\* lines 254-265: the 30 seconds are over, break; fd.Close and channel.Close
\* are commented out, the goroutine returns
SndLoopExit ==
    /\ exitCode["snd"] = Running /\ sndLoop = "waiting"
    /\ sndLoop' = "done"
    /\ UNCHANGED <<src, offset, readEnd, handed, sent, sendErrSeen, lateSend,
                   sndFdOpen>>
    /\ UNCHANGED <<connVars, chanVars, rcvVars, negVars, askVars, envVars, codecVars, libVars>>

\* lines 266-270: channel.OnClose of the sender: os.Exit(0)
SndOnClose ==
    /\ exitCode["snd"] = Running /\ pc["snd"] = "newDataChannel"
    /\ chan = "closed"
    /\ Exit("snd", 0)
    /\ UNCHANGED <<signal, emitted, remoteSignal, startedRole>>
    /\ UNCHANGED <<sndVars, chanVars, rcvVars, negVars, askVars, envVars, codecVars, libVars>>

(* ---- the transport: the channel closes without either handler asking ---- *)
\* The transport delivers the messages Send accepted in order and the close
\* event after them (the contract TestWebRTCFileTransferLocalE2E relies on).
Disconnect ==
    /\ chan = "open"
    /\ chan' = "closed"
    /\ closedBy' = "transport"
    /\ closedAfterEOF' = (readEnd = "eof")
    /\ UNCHANGED inflight
    /\ UNCHANGED <<connVars, sndVars, rcvVars, negVars, askVars, envVars, codecVars, libVars>>

(* ---- pkg/datachannel: the receiver's handlers ---- *)
\* what askForConfirmation can come to: true, false, or log.Fatal when stdin
\* cannot be read
PromptResults == {"yes", "no", "fatal"}

\* FileTransferHandler, lines 21-112: os.Stat of the target, AutoAccept or the
\* two prompts; the result is "go" (handle the transfer), "fatal", or the
\* reason for returning without handlers: "statFailed", "declined" (receive
\* prompt answered no) or "keptExisting" (overwrite prompt answered no)
HandlerDecision(statErr, exists, accept, overwrite) ==
    IF statErr THEN "statFailed"
    ELSE IF autoAccept THEN "go"
    ELSE IF accept = "fatal" THEN "fatal"
    ELSE IF accept = "no" THEN "declined"
    ELSE IF ~exists THEN "go"
    ELSE IF overwrite = "fatal" THEN "fatal"
    ELSE IF overwrite = "no" THEN "keptExisting"
    ELSE "go"

\* the handler returned without registering OnMessage and OnClose
Ignored == {"statFailed", "declined", "keptExisting", "createFailed"}

\* FileTransferHandler with the handleFileTransfer (lines 115-146) or
\* handleArchiveTransfer (lines 181-231) call it ends in
FileTransferHandler ==
    /\ exitCode["rcv"] = Running /\ pc["rcv"] = "sctpStart"
    /\ chan # "none" /\ rcvMode = "none"
    /\ \E statErr \in BOOLEAN, accept \in PromptResults,
          overwrite \in PromptResults, createOK \in BOOLEAN :
          LET d == HandlerDecision(statErr, target # NoFile, accept, overwrite)
          IN  \/ /\ d = "fatal"
                 /\ Exit("rcv", 1)
                 /\ UNCHANGED <<rcvMode, target, rcvFdOpen>>
              \/ /\ d \in Ignored \/ (d = "go" /\ ~isArchive /\ ~createOK)
                 /\ rcvMode' = IF d = "go" THEN "createFailed" ELSE d
                 /\ UNCHANGED <<pc, exitCode, steps, failedStep, target, rcvFdOpen>>
              \/ /\ d = "go" /\ ~isArchive /\ createOK
                 /\ rcvMode' = "file"
                 /\ target' = <<>>
                 /\ rcvFdOpen' = TRUE
                 /\ UNCHANGED <<pc, exitCode, steps, failedStep>>
              \/ /\ d = "go" /\ isArchive
                 /\ rcvMode' = "archive"
                 /\ UNCHANGED <<pc, exitCode, steps, failedStep, target, rcvFdOpen>>
    /\ UNCHANGED <<signal, emitted, remoteSignal, startedRole>>
    /\ UNCHANGED <<autoAccept, progress, writeErrSeen, label, buf, extractLog>>
    /\ UNCHANGED <<sndVars, chanVars, negVars, askVars, envVars, codecVars, libVars>>

\* handlers that fire on every channel, whatever the handler decided
FileHandlersRegistered_Always == rcvMode # "none"

\* handleFileTransfer, lines 127 and 135: channel.OnMessage and channel.OnClose
\* are registered only once the target has been created
FileHandlersRegistered == rcvMode = "file"

\* handleFileTransfer, lines 127-133: fd.Write(msg.Data); on an error (after
\* k < len bytes) log and return, else progress.Update
RcvOnMessage ==
    /\ exitCode["rcv"] = Running /\ FileHandlersRegistered
    /\ inflight # <<>>
    /\ LET data == Head(inflight)
       IN  \/ /\ target' = target \o data
              /\ progress' = progress + Len(data)
              /\ UNCHANGED writeErrSeen
           \/ \E k \in 0..(Len(data) - 1) :
                 /\ target' = target \o SubSeq(data, 1, k)
                 /\ writeErrSeen' = TRUE
                 /\ UNCHANGED progress
    /\ inflight' = Tail(inflight)
    /\ UNCHANGED <<chan, closedBy, closedAfterEOF>>
    /\ UNCHANGED <<autoAccept, rcvMode, rcvFdOpen, label, buf, extractLog>>
    /\ UNCHANGED <<connVars, sndVars, negVars, askVars, envVars, codecVars, libVars>>

\* handleFileTransfer, lines 135-145: close the file, print the summary,
\* os.Exit(0)
RcvOnClose ==
    /\ exitCode["rcv"] = Running /\ FileHandlersRegistered
    /\ chan = "closed" /\ inflight = <<>>
    /\ rcvFdOpen' = FALSE
    /\ Exit("rcv", 0)
    /\ UNCHANGED <<signal, emitted, remoteSignal, startedRole>>
    /\ UNCHANGED <<autoAccept, rcvMode, target, progress, writeErrSeen, label,
                   buf, extractLog>>
    /\ UNCHANGED <<sndVars, chanVars, negVars, askVars, envVars, codecVars, libVars>>

\* handleArchiveTransfer, lines 186-194: append the datagram to the buffer
RcvArchiveOnMessage ==
    /\ exitCode["rcv"] = Running /\ rcvMode = "archive"
    /\ inflight # <<>>
    /\ buf' = buf \o Head(inflight)
    /\ inflight' = Tail(inflight)
    /\ UNCHANGED <<chan, closedBy, closedAfterEOF>>
    /\ UNCHANGED <<autoAccept, rcvMode, target, rcvFdOpen, progress, writeErrSeen,
                   label, extractLog>>
    /\ UNCHANGED <<connVars, sndVars, negVars, askVars, envVars, codecVars, libVars>>

\* handleArchiveTransfer, lines 196-230: Getwd and MkdirAll (exit 1 on error),
\* then ExtractTarGz on the buffer: exit 1 on error, else exit 0
RcvArchiveOnClose ==
    /\ exitCode["rcv"] = Running /\ rcvMode = "archive"
    /\ chan = "closed" /\ inflight = <<>>
    /\ \/ Exit("rcv", 1) /\ UNCHANGED extractLog
       \/ \E ok \in BOOLEAN :
             /\ extractLog' = Append(extractLog,
                                     [data |-> buf, dest |-> destPath, ok |-> ok])
             /\ Exit("rcv", IF ok THEN 0 ELSE 1)
    /\ UNCHANGED <<signal, emitted, remoteSignal, startedRole>>
    /\ UNCHANGED <<autoAccept, rcvMode, target, rcvFdOpen, progress, writeErrSeen,
                   label, buf>>
    /\ UNCHANGED <<sndVars, chanVars, negVars, askVars, envVars, codecVars, libVars>>

\* what the two processes can do by themselves
ProgramNext ==
    \/ \E p \in Peers : CheckSource(p)
    \/ \E p \in Peers : Construct(p)
    \/ \E p \in Peers : Gather(p)
    \/ \E p \in Peers : GatherDone(p)
    \/ \E p \in Peers : EmitSignal(p)
    \/ \E p \in Peers : ReadRemote(p)
    \/ \E p \in Peers : SetRemoteCandidates(p)
    \/ \E p \in Peers : ICEStart(p)
    \/ \E p \in Peers : DTLSStart(p)
    \/ \E p \in Peers : SCTPStart(p)
    \/ \E p \in Peers : NewDataChannel(p)
    \/ SndOnOpen
    \/ SndSendChunk
    \/ SndReadEnd
    \/ SndLoopExit
    \/ SndOnClose
    \/ FileTransferHandler
    \/ RcvOnMessage
    \/ RcvOnClose
    \/ RcvArchiveOnMessage
    \/ RcvArchiveOnClose

Next == ProgramNext \/ Disconnect

Spec == Init /\ [][Next]_vars

(* ---- the role negotiator on bounded inputs ---- *)
RoleInit ==
    /\ ConnInit
    /\ TransferInit({<<>>}, {NoFile}, {FALSE})
    /\ negA \in NegParams /\ negB \in NegParams
    /\ negRole = [fn |-> "none"]
    /\ ask = NoAsk
    /\ srcKind = "file"
    /\ codec = NoCodec
    /\ LibIdle

\* each peer calls DetermineICERoleWithDTLS with its own parameters first
NegotiateWithDTLS ==
    /\ negRole.fn = "none"
    /\ negRole' = [fn |-> "dtls",
                   ab |-> DetermineICERoleWithDTLS(negA.ice, negB.ice, negA.dtls, negB.dtls),
                   ba |-> DetermineICERoleWithDTLS(negB.ice, negA.ice, negB.dtls, negA.dtls)]
    /\ UNCHANGED <<negA, negB, connVars, sndVars, chanVars, rcvVars, askVars, envVars, codecVars, libVars>>

\* each peer calls DetermineICERole with its own parameters first
NegotiateUfrag ==
    /\ negRole.fn = "none"
    /\ negRole' = [fn |-> "ufrag",
                   ab |-> DetermineICERole(negA.ice, negB.ice),
                   ba |-> DetermineICERole(negB.ice, negA.ice)]
    /\ UNCHANGED <<negA, negB, connVars, sndVars, chanVars, rcvVars, askVars, envVars, codecVars, libVars>>

RoleNext == NegotiateWithDTLS \/ NegotiateUfrag

RoleSpec == RoleInit /\ [][RoleNext]_vars

(* ---- askForConfirmation on bounded standard input ---- *)
\* tries := 3
Tries == 3

\* strings.ToLower on one character
ToLowerChar(c) ==
    IF c = "Y" THEN "y" ELSE IF c = "E" THEN "e" ELSE IF c = "S" THEN "s"
    ELSE IF c = "N" THEN "n" ELSE IF c = "O" THEN "o" ELSE c

ToLower(s) == [i \in 1..Len(s) |-> ToLowerChar(s[i])]

\* the characters strings.TrimSpace removes
Space == {" ", "\t", "\r", "\n"}

RECURSIVE TrimLeft(_)
TrimLeft(s) == IF s # <<>> /\ Head(s) \in Space THEN TrimLeft(Tail(s)) ELSE s

RECURSIVE TrimRight(_)
TrimRight(s) ==
    IF s # <<>> /\ s[Len(s)] \in Space THEN TrimRight(SubSeq(s, 1, Len(s) - 1)) ELSE s

TrimSpace(s) == TrimRight(TrimLeft(s))

\* a loop body that also takes the capital letter as typed, without folding
AskOnce_NoFold(res) ==
    IF Len(res) < 2 THEN "yes"
    ELSE IF TrimSpace(res) \in {<<"y">>, <<"Y">>, <<"y", "e", "s">>} THEN "yes"
    ELSE IF TrimSpace(res) \in {<<"n">>, <<"N">>, <<"n", "o">>} THEN "no"
    ELSE "retry"

\* the body of the loop on the string res that ReadString('\n') returned
\* (delimiter included), lines 246-258
AskOnce(res) ==
    IF Len(res) < 2 THEN "yes"
    ELSE LET trimmed == ToLower(TrimSpace(res))
         IN  IF trimmed \in {<<"y">>, <<"y", "e", "s">>} THEN "yes"
             ELSE IF trimmed \in {<<"n">>, <<"n", "o">>} THEN "no"
             ELSE "retry"

\* the lines typed at the prompt, without their newline
Lines == {<<>>, <<"y">>, <<"y", "e", "s">>, <<"Y">>, <<"Y", "E", "S">>,
          <<" ", "y", " ">>, <<"n">>, <<"n", "o">>, <<"N">>, <<" ">>,
          <<"\r">>, <<"m">>}

\* standard input holds at most MaxLines complete lines, then EOF
PromptInit ==
    /\ ConnInit
    /\ TransferInit({<<>>}, {NoFile}, {FALSE})
    /\ negA = NoParams /\ negB = NoParams /\ negRole = [fn |-> "none"]
    /\ srcKind = "file"
    /\ codec = NoCodec
    /\ LibIdle
    /\ \E in \in SeqsUpTo(Lines, MaxLines) :
           ask = [stdin |-> in, tries |-> Tries, heard |-> <<>>, out |-> "asking"]

\* one pass of the loop, lines 238-259: print the question, read a line
\* (log.Fatal on a read error), answer or count the try down
AskIteration ==
    /\ ask.out = "asking" /\ ask.tries > 0
    /\ IF ask.stdin = <<>>
       THEN ask' = [ask EXCEPT !.out = "fatal"]
       ELSE LET res == Head(ask.stdin) \o <<"\n">>
                a   == AskOnce(res)
            IN  ask' = [stdin |-> Tail(ask.stdin),
                        tries |-> IF a = "retry" THEN ask.tries - 1 ELSE ask.tries,
                        heard |-> Append(ask.heard, Head(ask.stdin)),
                        out   |-> IF a = "retry" THEN "asking" ELSE a]
    /\ UNCHANGED <<connVars, sndVars, chanVars, rcvVars, negVars, envVars, codecVars, libVars>>

\* line 261: the loop ran out of tries
AskGiveUp ==
    /\ ask.out = "asking" /\ ask.tries = 0
    /\ ask' = [ask EXCEPT !.out = "no"]
    /\ UNCHANGED <<connVars, sndVars, chanVars, rcvVars, negVars, envVars, codecVars, libVars>>

PromptNext == AskIteration \/ AskGiveUp

PromptSpec == PromptInit /\ [][PromptNext]_vars

(* ---- the HTCP signal codec: EncodeCompact and DecodeCompact ---- *)
htcpMagic == 72
htcpVersion == 1
fingerprintSize == 32
candTypeHost == 0
candTypeSrflx == 1
candTypePrflx == 2
candTypeRelay == 3
\* the longest string a one-byte length prefix can carry
MaxPrefixed == 255
protoUDP == 1
protoTCP == 2

\* s[:n] when s is longer than n
Truncate(s, n) == IF Len(s) > n THEN SubSeq(s, 1, n) ELSE s

\* n zero bytes
Zeros(n) == [i \in 1..n |-> 0]

\* binary.BigEndian on a value of w bytes
BigEndian(v, w) == [i \in 1..w |-> (v \div (256 ^ (w - i))) % 256]

\* a uint32 above 2^31 - 1 is held as the int32 of the same four bytes, which
\* BigEndian turns back into those bytes
FromBigEndian(b) ==
    LET w == Len(b)
        Top(i) == IF w = 4 /\ i = 1 /\ b[i] >= 128 THEN b[i] - 256 ELSE b[i]
        RECURSIVE Sum(_)
        Sum(i) == IF i > w THEN 0 ELSE Top(i) * (256 ^ (w - i)) + Sum(i + 1)
    IN  Sum(1)

HexDigits == <<"0", "1", "2", "3", "4", "5", "6", "7",
               "8", "9", "a", "b", "c", "d", "e", "f">>
HexUpper == <<"0", "1", "2", "3", "4", "5", "6", "7",
              "8", "9", "A", "B", "C", "D", "E", "F">>

IsHexChar(c) == \E i \in 1..16 : HexDigits[i] = c \/ HexUpper[i] = c

HexVal(c) == (CHOOSE i \in 1..16 : HexDigits[i] = c \/ HexUpper[i] = c) - 1

\* hex.DecodeString: [err, bytes]; odd length and non-hex characters are errors
HexDecodeString(h) ==
    IF Len(h) % 2 = 1 \/ \E i \in 1..Len(h) : ~IsHexChar(h[i])
    THEN [err |-> TRUE, bytes |-> <<>>]
    ELSE [err |-> FALSE,
          bytes |-> [i \in 1..(Len(h) \div 2) |->
                         16 * HexVal(h[2 * i - 1]) + HexVal(h[2 * i])]]

\* hex.EncodeToString followed by strings.Join(pairs, ":"), lines 525-531
HexColons(bytes) ==
    LET n == Len(bytes)
    IN  [j \in 1..(IF n = 0 THEN 0 ELSE 3 * n - 1) |->
            LET i == (j + 2) \div 3
                k == (j + 2) % 3
            IN  IF k = 0 THEN HexDigits[(bytes[i] \div 16) + 1]
                ELSE IF k = 1 THEN HexDigits[(bytes[i] % 16) + 1]
                ELSE ":"]

\* strings.ReplaceAll(v, ":", "")
StripColons(v) == SelectSeq(v, LAMBDA c : c # ":")

\* base64.StdEncoding.EncodeToString: sextets 0..63, 64 for the padding '='
Base64Encode(b) ==
    LET n == Len(b)
        At(i) == IF i <= n THEN b[i] ELSE 0
    IN  [j \in 1..(4 * ((n + 2) \div 3)) |->
            LET g == (j - 1) \div 4
                k == (j - 1) % 4
                b1 == At(3 * g + 1)
                b2 == At(3 * g + 2)
                b3 == At(3 * g + 3)
            IN  IF k = 0 THEN b1 \div 4
                ELSE IF k = 1 THEN (b1 % 4) * 16 + (b2 \div 16)
                ELSE IF k = 2
                     THEN IF 3 * g + 2 > n THEN 64 ELSE (b2 % 16) * 4 + (b3 \div 64)
                ELSE IF 3 * g + 3 > n THEN 64 ELSE b3 % 64]

\* base64.StdEncoding.DecodeString: [err, bytes]
Base64Decode(e) ==
    LET m == Len(e)
        pad == IF m >= 2 /\ e[m] = 64 THEN (IF e[m - 1] = 64 THEN 2 ELSE 1) ELSE 0
        n == 3 * (m \div 4) - pad
        Six(j) == IF e[j] = 64 THEN 0 ELSE e[j]
    IN  IF m % 4 # 0 \/ \E j \in 1..(m - pad) : e[j] = 64
        THEN [err |-> TRUE, bytes |-> <<>>]
        ELSE [err |-> FALSE,
              bytes |-> [i \in 1..n |->
                  LET g == (i - 1) \div 3
                      k == (i - 1) % 3
                      s1 == Six(4 * g + 1)
                      s2 == Six(4 * g + 2)
                      s3 == Six(4 * g + 3)
                      s4 == Six(4 * g + 4)
                  IN  IF k = 0 THEN s1 * 4 + (s2 \div 16)
                      ELSE IF k = 1 THEN (s2 % 16) * 16 + (s3 \div 4)
                      ELSE (s3 % 4) * 64 + s4]]

stringToCandidateType(t) ==
    IF t = "srflx" THEN candTypeSrflx
    ELSE IF t = "prflx" THEN candTypePrflx
    ELSE IF t = "relay" THEN candTypeRelay
    ELSE candTypeHost

candidateTypeToString(t) ==
    IF t = candTypeSrflx THEN "srflx"
    ELSE IF t = candTypePrflx THEN "prflx"
    ELSE IF t = candTypeRelay THEN "relay"
    ELSE "host"

protocolToInt(p) == IF p = "tcp" THEN protoTCP ELSE protoUDP

intToProtocol(p) == IF p = protoTCP THEN "tcp" ELSE "udp"

\* a length-prefixed string, cut to what the prefix can carry
Prefixed(s) == <<Len(Truncate(s, MaxPrefixed))>> \o Truncate(s, MaxPrefixed)

\* a candidate encoding that writes the related address for every type
encodeCandidate_AlwaysRelated(c) ==
    Prefixed(c.Foundation) \o BigEndian(c.Priority, 4)
    \o Prefixed(c.Address) \o BigEndian(c.Port, 2)
    \o <<((stringToCandidateType(c.Typ) * 16) % 256) + (protocolToInt(c.Protocol) % 16)>>
    \o Prefixed(c.RelatedAddress) \o BigEndian(c.RelatedPort, 2)

\* encodeCandidate, lines 412-454
encodeCandidate(c) ==
    LET candType == stringToCandidateType(c.Typ)
        proto    == protocolToInt(c.Protocol)
        packed   == ((candType * 16) % 256) + (proto % 16)
        relAddr  == Truncate(c.RelatedAddress, MaxPrefixed)
    IN  Prefixed(c.Foundation) \o BigEndian(c.Priority, 4)
        \o Prefixed(c.Address) \o BigEndian(c.Port, 2)
        \o <<packed>>
        \o (IF candType # candTypeHost
            THEN <<Len(relAddr)>> \o
                 (IF Len(relAddr) > 0
                  THEN relAddr \o BigEndian(c.RelatedPort, 2) ELSE <<>>)
            ELSE <<>>)

\* the loop of EncodeCompact, lines 404-407, on candidates i..n (the
\* concatenation is built by halves)
RECURSIVE encodeCandidates(_, _, _)
encodeCandidates(cands, i, n) ==
    IF i > n THEN <<>>
    ELSE IF i = n THEN encodeCandidate(cands[i])
    ELSE encodeCandidates(cands, i, (i + n) \div 2)
         \o encodeCandidates(cands, ((i + n) \div 2) + 1, n)

\* EncodeCompact, lines 352-409: [err, out]
EncodeCompact(s) ==
    LET fp == IF Len(s.DTLSParameters.Fingerprints) > 0
              THEN HexDecodeString(StripColons(s.DTLSParameters.Fingerprints[1].Value))
              ELSE [err |-> FALSE, bytes |-> Zeros(fingerprintSize)]
        fpBytes == IF Len(fp.bytes) < fingerprintSize
                   THEN fp.bytes \o Zeros(fingerprintSize - Len(fp.bytes))
                   ELSE fp.bytes
        numCandidates == IF Len(s.ICECandidates) > MaxPrefixed
                         THEN MaxPrefixed ELSE Len(s.ICECandidates)
    IN  IF fp.err THEN [err |-> TRUE, out |-> <<>>]
        ELSE [err |-> FALSE,
              out |-> Base64Encode(
                  <<htcpMagic, htcpVersion>>
                  \o Prefixed(s.ICEParameters.UsernameFragment)
                  \o Prefixed(s.ICEParameters.Password)
                  \o <<s.DTLSParameters.Role % 256>>
                  \o SubSeq(fpBytes, 1, fingerprintSize)
                  \o <<numCandidates>>
                  \o encodeCandidates(s.ICECandidates, 1, numCandidates))]

\* data[off] and data[a:b] with the code's offsets, which count from 0
ByteAt(data, off) == data[off + 1]
Slice(data, a, b) == SubSeq(data, a + 1, b)

\* the zero value of webrtc.ICECandidate
ZeroCandidate ==
    [Foundation |-> <<>>, Priority |-> 0, Address |-> <<>>, Protocol |-> "unknown",
     Port |-> 0, Typ |-> "unknown", Component |-> 0, RelatedAddress |-> <<>>,
     RelatedPort |-> 0, TCPType |-> ""]

\* the zero value of Signal
ZeroSignal ==
    [ICECandidates |-> <<>>,
     ICEParameters |-> [UsernameFragment |-> <<>>, Password |-> <<>>, ICELite |-> FALSE],
     DTLSParameters |-> [Role |-> 0, Fingerprints |-> <<>>],
     SCTPCapabilities |-> [MaxMessageSize |-> 0]]

\* a bounds check of the decoder, "offset+length > len(data)" (and
\* "offset >= len(data)" with length 1): the field does not fit in the input
Exceeds_OffByOne(off, length, n) == off + length > n + 1

Exceeds(off, length, n) == off + length > n

\* the run-time check of data[off] and data[a:b]: an index past the end of
\* the input panics
IndexPanics(data, a, b) == a > b \/ b > Len(data)

\* decodeCandidate, lines 567-641: [c, offset, err, panic]
decodeCandidate(data, start) ==
    LET n == Len(data)
        bad(c, off) == [c |-> c, offset |-> off, err |-> TRUE, panic |-> FALSE]
        good(c, off) == [c |-> c, offset |-> off, err |-> FALSE, panic |-> FALSE]
        panics(c, off) == [c |-> c, offset |-> off, err |-> TRUE, panic |-> TRUE]
    IN
    IF Exceeds(start, 1, n) THEN bad(ZeroCandidate, start) ELSE
    IF IndexPanics(data, start, start + 1) THEN panics(ZeroCandidate, start) ELSE
    LET foundationLen == ByteAt(data, start)
        o1 == start + 1
    IN
    IF Exceeds(o1, foundationLen, n) THEN bad(ZeroCandidate, o1) ELSE
    IF IndexPanics(data, o1, o1 + foundationLen) THEN panics(ZeroCandidate, o1) ELSE
    LET c1 == [ZeroCandidate EXCEPT !.Foundation = Slice(data, o1, o1 + foundationLen)]
        o2 == o1 + foundationLen
    IN
    IF Exceeds(o2, 4, n) THEN bad(c1, o2) ELSE
    IF IndexPanics(data, o2, o2 + 4) THEN panics(c1, o2) ELSE
    LET c2 == [c1 EXCEPT !.Priority = FromBigEndian(Slice(data, o2, o2 + 4))]
        o3 == o2 + 4
    IN
    IF Exceeds(o3, 1, n) THEN bad(c2, o3) ELSE
    IF IndexPanics(data, o3, o3 + 1) THEN panics(c2, o3) ELSE
    LET addrLen == ByteAt(data, o3)
        o4 == o3 + 1
    IN
    IF Exceeds(o4, addrLen, n) THEN bad(c2, o4) ELSE
    IF IndexPanics(data, o4, o4 + addrLen) THEN panics(c2, o4) ELSE
    LET c3 == [c2 EXCEPT !.Address = Slice(data, o4, o4 + addrLen)]
        o5 == o4 + addrLen
    IN
    IF Exceeds(o5, 2, n) THEN bad(c3, o5) ELSE
    IF IndexPanics(data, o5, o5 + 2) THEN panics(c3, o5) ELSE
    LET c4 == [c3 EXCEPT !.Port = FromBigEndian(Slice(data, o5, o5 + 2))]
        o6 == o5 + 2
    IN
    IF Exceeds(o6, 1, n) THEN bad(c4, o6) ELSE
    IF IndexPanics(data, o6, o6 + 1) THEN panics(c4, o6) ELSE
    LET packed   == ByteAt(data, o6)
        o7       == o6 + 1
        candType == (packed \div 16) % 16
        proto    == packed % 16
        c5 == [c4 EXCEPT !.Typ = candidateTypeToString(candType),
                         !.Protocol = intToProtocol(proto),
                         !.Component = 1]
    IN
    IF candType = candTypeHost THEN good(c5, o7) ELSE
    IF Exceeds(o7, 1, n) THEN bad(c5, o7) ELSE
    IF IndexPanics(data, o7, o7 + 1) THEN panics(c5, o7) ELSE
    LET relAddrLen == ByteAt(data, o7)
        o8 == o7 + 1
    IN
    IF relAddrLen = 0 THEN good(c5, o8) ELSE
    IF Exceeds(o8, relAddrLen + 2, n) THEN bad(c5, o8) ELSE
    IF IndexPanics(data, o8, o8 + relAddrLen + 2) THEN panics(c5, o8) ELSE
    good([c5 EXCEPT !.RelatedAddress = Slice(data, o8, o8 + relAddrLen),
                    !.RelatedPort = FromBigEndian(
                        Slice(data, o8 + relAddrLen, o8 + relAddrLen + 2))],
         o8 + relAddrLen + 2)

\* the loop of DecodeCompact, lines 552-560: [cands, err]
RECURSIVE decodeCandidates(_, _, _, _)
decodeCandidates(data, start, left, acc) ==
    IF left <= 0 THEN [cands |-> acc, err |-> "none"]
    ELSE LET r == decodeCandidate(data, start)
         IN  IF r.err
             THEN [cands |-> acc, err |-> IF r.panic THEN "panic" ELSE "invalidSignal"]
             ELSE decodeCandidates(data, r.offset, left - 1, Append(acc, r.c))

\* DecodeCompact up to the candidate count, lines 457-550, called on the
\* Signal s0: [err, s, data, off, numCandidates]
DecodeHeader(encoded, s0) ==
    LET b64 == Base64Decode(encoded)
        data == b64.bytes
        n == Len(b64.bytes)
        minSize == 1 + 1 + 1 + 1 + 1 + fingerprintSize + 1
        fail(kind, s) == [err |-> kind, s |-> s, data |-> data, off |-> 0,
                          numCandidates |-> 0]
    IN
    IF b64.err THEN fail("base64", s0) ELSE
    IF n < 2 THEN fail("invalidSignal", s0) ELSE
    IF IndexPanics(data, 0, 2) THEN fail("panic", s0) ELSE
    IF ByteAt(data, 0) # htcpMagic THEN fail("invalidMagic", s0) ELSE
    IF ByteAt(data, 1) # htcpVersion THEN fail("unsupportedVersion", s0) ELSE
    IF n < minSize THEN fail("invalidSignal", s0) ELSE
    IF Exceeds(2, 1, n) THEN fail("invalidSignal", s0) ELSE
    IF IndexPanics(data, 2, 3) THEN fail("panic", s0) ELSE
    LET ufragLen == ByteAt(data, 2)
        o1 == 3
    IN
    IF Exceeds(o1, ufragLen, n) THEN fail("invalidSignal", s0) ELSE
    IF IndexPanics(data, o1, o1 + ufragLen) THEN fail("panic", s0) ELSE
    LET ufrag == Slice(data, o1, o1 + ufragLen)
        o2 == o1 + ufragLen
    IN
    IF Exceeds(o2, 1, n) THEN fail("invalidSignal", s0) ELSE
    IF IndexPanics(data, o2, o2 + 1) THEN fail("panic", s0) ELSE
    LET pwdLen == ByteAt(data, o2)
        o3 == o2 + 1
    IN
    IF Exceeds(o3, pwdLen, n) THEN fail("invalidSignal", s0) ELSE
    IF IndexPanics(data, o3, o3 + pwdLen) THEN fail("panic", s0) ELSE
    LET pwd == Slice(data, o3, o3 + pwdLen)
        o4 == o3 + pwdLen
        s1 == [s0 EXCEPT !.ICEParameters =
                  [UsernameFragment |-> ufrag, Password |-> pwd, ICELite |-> FALSE]]
    IN
    IF Exceeds(o4, 1 + fingerprintSize + 1, n) THEN fail("invalidSignal", s1) ELSE
    IF IndexPanics(data, o4, o4 + 1 + fingerprintSize + 1) THEN fail("panic", s1) ELSE
    LET role == ByteAt(data, o4)
        fpBytes == Slice(data, o4 + 1, o4 + 1 + fingerprintSize)
        o5 == o4 + 1 + fingerprintSize
    IN  [err |-> "none",
         s |-> [s1 EXCEPT
                  !.DTLSParameters =
                      [Role |-> role,
                       Fingerprints |-> <<[Algorithm |-> "sha-256",
                                           Value |-> HexColons(fpBytes)]>>],
                  !.SCTPCapabilities = [MaxMessageSize |-> 0],
                  !.ICECandidates = <<>>],
         data |-> data,
         off |-> o5 + 1,
         numCandidates |-> ByteAt(data, o5)]

\* DecodeCompact, lines 457-563, called on the Signal s0: [err, s]
DecodeCompact(encoded, s0) ==
    LET h == DecodeHeader(encoded, s0)
        r == decodeCandidates(h.data, h.off, h.numCandidates, <<>>)
    IN  IF h.err # "none" THEN [err |-> h.err, s |-> h.s]
        ELSE [err |-> r.err, s |-> [h.s EXCEPT !.ICECandidates = r.cands]]

(* ---- the codec on bounded Signals ---- *)
ShortStr == <<71, 79>>
\* one byte more than a length prefix can carry
LongStr == [i \in 1..(MaxPrefixed + 1) |-> 97]

FullFingerprint == [i \in 1..fingerprintSize |-> (37 * i + 10) % 256]

ToUpperHex(v) ==
    [j \in 1..Len(v) |->
        IF \E i \in 1..16 : HexDigits[i] = v[j]
        THEN HexUpper[CHOOSE i \in 1..16 : HexDigits[i] = v[j]] ELSE v[j]]

\* the DTLS fingerprint lists of the inputs: none, a SHA-256 value in lower
\* and in upper case, a value of 2 bytes, a SHA-512-sized value, a value that
\* is not hex, and two fingerprints
FingerprintLists ==
    LET fp(alg, bytes) == [Algorithm |-> alg, Value |-> HexColons(bytes)]
        full == fp("sha-256", FullFingerprint)
    IN  {<<>>,
         <<full>>,
         <<[full EXCEPT !.Value = ToUpperHex(full.Value)]>>,
         <<fp("sha-256", SubSeq(FullFingerprint, 1, 2))>>,
         <<fp("sha-512", FullFingerprint \o FullFingerprint)>>,
         <<[Algorithm |-> "sha-256", Value |-> <<"z", "z">>]>>,
         <<full, fp("sha-256", Zeros(fingerprintSize))>>}

HostCandidate ==
    [Foundation |-> <<49>>, Priority |-> 2130706431, Address |-> <<49, 48>>,
     Protocol |-> "udp", Port |-> 31545, Typ |-> "host", Component |-> 1,
     RelatedAddress |-> <<>>, RelatedPort |-> 0, TCPType |-> ""]

SrflxCandidate ==
    [HostCandidate EXCEPT !.Typ = "srflx", !.Priority = 1694498815,
                          !.RelatedAddress = <<49, 48>>, !.RelatedPort = 31545]

\* the candidates of the inputs
Candidates ==
    {HostCandidate,
     SrflxCandidate,
     [SrflxCandidate EXCEPT !.Typ = "relay", !.Protocol = "tcp", !.TCPType = "passive"],
     [SrflxCandidate EXCEPT !.Typ = "prflx", !.RelatedAddress = <<>>],
     [HostCandidate EXCEPT !.Component = 2],
     [HostCandidate EXCEPT !.Foundation = LongStr, !.Priority = 0]}

RelayCandidate ==
    [SrflxCandidate EXCEPT !.Typ = "relay", !.Priority = 33562367]

\* the candidate lists of the inputs: none, one, the usual three, and one
\* candidate more than the count byte can carry
CandidateLists ==
    {<<>>, <<HostCandidate, SrflxCandidate, RelayCandidate>>,
     [i \in 1..(MaxPrefixed + 1) |-> HostCandidate]}
        \cup {<<c>> : c \in Candidates}

ICEParameterSets ==
    LET ice(u, p, lite) == [UsernameFragment |-> u, Password |-> p, ICELite |-> lite]
    IN  {ice(ShortStr, ShortStr, FALSE), ice(ShortStr, ShortStr, TRUE),
         ice(<<>>, ShortStr, FALSE), ice(LongStr, ShortStr, FALSE),
         ice(ShortStr, LongStr, FALSE)}

Signals ==
    [ICECandidates : CandidateLists,
     ICEParameters : ICEParameterSets,
     DTLSParameters : [Role : {1, 2}, Fingerprints : FingerprintLists],
     SCTPCapabilities : [MaxMessageSize : {0, 65536}]]

CodecInit ==
    /\ ConnInit
    /\ TransferInit({<<>>}, {NoFile}, {FALSE})
    /\ negA = NoParams /\ negB = NoParams /\ negRole = [fn |-> "none"]
    /\ ask = NoAsk
    /\ LibIdle
    /\ srcKind = "file"
    /\ \E s \in Signals : codec = [phase |-> "new", s |-> s]

\* encoded, err := EncodeCompact(s)
CodecEncode ==
    /\ codec.phase = "new"
    /\ LET e == EncodeCompact(codec.s)
       IN  codec' = IF e.err THEN [phase |-> "encodeFailed", s |-> codec.s]
                    ELSE [phase |-> "encoded", s |-> codec.s, wire |-> e.out]
    /\ UNCHANGED <<connVars, sndVars, chanVars, rcvVars, negVars, askVars, envVars, libVars>>

\* var decoded Signal; err = DecodeCompact(encoded, &decoded): the part
\* before the candidate loop
CodecDecode ==
    /\ codec.phase = "encoded"
    /\ LET h == DecodeHeader(codec.wire, ZeroSignal)
       IN  codec' = IF h.err # "none" \/ h.numCandidates = 0
                    THEN [phase |-> "decoded", s |-> codec.s, wire |-> codec.wire,
                          err |-> h.err, decoded |-> h.s]
                    ELSE [phase |-> "decoding", s |-> codec.s, wire |-> codec.wire,
                          decoded |-> h.s, data |-> h.data, off |-> h.off,
                          left |-> h.numCandidates]
    /\ UNCHANGED <<connVars, sndVars, chanVars, rcvVars, negVars, askVars, envVars, libVars>>

\* one pass of the candidate loop of DecodeCompact, lines 553-560
CodecDecodeCandidate ==
    /\ codec.phase = "decoding"
    /\ LET r == decodeCandidate(codec.data, codec.off)
           d == [codec.decoded EXCEPT !.ICECandidates = Append(@, r.c)]
       IN  codec' = IF r.err
                    THEN [phase |-> "decoded", s |-> codec.s, wire |-> codec.wire,
                          err |-> IF r.panic THEN "panic" ELSE "invalidSignal",
                          decoded |-> codec.decoded]
                    ELSE IF codec.left = 1
                    THEN [phase |-> "decoded", s |-> codec.s, wire |-> codec.wire,
                          err |-> "none", decoded |-> d]
                    ELSE [codec EXCEPT !.decoded = d, !.off = r.offset,
                                       !.left = codec.left - 1]
    /\ UNCHANGED <<connVars, sndVars, chanVars, rcvVars, negVars, askVars, envVars, libVars>>

CodecNext == CodecEncode \/ CodecDecode \/ CodecDecodeCandidate

CodecSpec == CodecInit /\ [][CodecNext]_vars

(* ---- the decoder on byte strings that no encoder produced ---- *)
\* the Signal of createCompactTestSignal: three candidates, host, srflx, relay
CanonicalSignal ==
    [ICECandidates |-> <<HostCandidate, SrflxCandidate, RelayCandidate>>,
     ICEParameters |-> [UsernameFragment |-> ShortStr, Password |-> ShortStr,
                        ICELite |-> FALSE],
     DTLSParameters |-> [Role |-> 1,
                         Fingerprints |-> <<[Algorithm |-> "sha-256",
                                             Value |-> HexColons(FullFingerprint)]>>],
     SCTPCapabilities |-> [MaxMessageSize |-> 0]]

\* the bytes EncodeCompact wraps in base64 for the canonical Signal
CanonicalBytes == Base64Decode(EncodeCompact(CanonicalSignal).out).bytes

\* the values a damaged byte takes: zero, a small length, the type nibble of
\* srflx, the largest length
DamageBytes == {0, 2, 16, 255}

\* the inputs of the decoder: the canonical bytes, cut at every length, with
\* at most one byte replaced
ByteStrings ==
    LET w == CanonicalBytes
    IN  {SubSeq(w, 1, k) : k \in 0..Len(w)}
        \cup {SubSeq([w EXCEPT ![i] = v], 1, k) :
                  <<i, k, v>> \in {x \in (1..Len(w)) \X (1..Len(w)) \X DamageBytes :
                                       x[1] <= x[2]}}

DecodeInit ==
    /\ ConnInit
    /\ TransferInit({<<>>}, {NoFile}, {FALSE})
    /\ negA = NoParams /\ negB = NoParams /\ negRole = [fn |-> "none"]
    /\ ask = NoAsk
    /\ LibIdle
    /\ srcKind = "file"
    /\ \E b \in ByteStrings :
           codec = [phase |-> "encoded", s |-> CanonicalSignal,
                    wire |-> Base64Encode(b)]

DecodeNext == CodecDecode \/ CodecDecodeCandidate

DecodeSpec == DecodeInit /\ [][DecodeNext]_vars

(* ---- Decode, the public entry that picks the decoder ---- *)
\* IsCompactFormat: strings.HasPrefix(encoded, "SA"), 'S' and 'A' being the
\* sextets 18 and 0
IsCompactFormat(encoded) ==
    Len(encoded) >= 2 /\ encoded[1] = 18 /\ encoded[2] = 0

\* json.Unmarshal(b, obj) on the inputs here, of which only "{}" is a JSON value
JSONUnmarshal(b) == IF b = <<123, 125>> THEN "none" ELSE "json"

DispatchInit ==
    /\ ConnInit
    /\ TransferInit({<<>>}, {NoFile}, {FALSE})
    /\ negA = NoParams /\ negB = NoParams /\ negRole = [fn |-> "none"]
    /\ ask = NoAsk
    /\ LibIdle
    /\ srcKind = "file"
    /\ \E b \in ByteStrings \cup {<<123, 125>>} :
           codec = [phase |-> "received", wire |-> Base64Encode(b)]

\* Decode(in, &signal): the blobs here carry no white space for TrimSpace to
\* remove; an error ends the process in cobra.CheckErr
Decode ==
    /\ codec.phase = "received"
    /\ LET b64 == Base64Decode(codec.wire)
           d == DecodeCompact(codec.wire, ZeroSignal)
       IN  codec' =
              IF IsCompactFormat(codec.wire)
              THEN [phase |-> "decoded", wire |-> codec.wire, via |-> "htcp",
                    err |-> d.err, decoded |-> d.s]
              ELSE [phase |-> "decoded", wire |-> codec.wire, via |-> "json",
                    err |-> IF b64.err THEN "base64" ELSE JSONUnmarshal(b64.bytes),
                    decoded |-> ZeroSignal]
    /\ UNCHANGED <<connVars, sndVars, chanVars, rcvVars, negVars, askVars, envVars, libVars>>

DispatchNext == Decode

DispatchSpec == DispatchInit /\ [][DispatchNext]_vars

(* ---- Progress and Transfer under concurrent goroutines ---- *)
\* the goroutines of TestProgress_ThreadSafety and TestTransfer_ConcurrentAccess
Goroutines == {"g1", "g2"}

Max(a, b) == IF a >= b THEN a ELSE b

\* an update that overwrites the counter
AtomicAddInt64_Store(cur, n) == n

\* an update that is dropped
AtomicAddInt64_Drop(cur, n) == cur

\* atomic.AddInt64(&p.TransferredBytes, n): the new value, in one step (the
\* sums here stay far below 2^63)
AtomicAddInt64(cur, n) == cur + n

\* mode "direct": each goroutine loops over p.Update(n); p.Metrics().
\* mode "transfer": each loops over tr.UpdateProgress(n); tr.Status().
\* asked: sum of the n of all update calls so far; seen: the largest
\* transferred-bytes a returned snapshot has shown; floor[g]: seen when g's
\* pending snapshot was called; snap[g]: what g's last snapshot showed
ProgressInit ==
    /\ ConnInit
    /\ TransferInit({<<>>}, {NoFile}, {FALSE})
    /\ negA = NoParams /\ negB = NoParams /\ negRole = [fn |-> "none"]
    /\ ask = NoAsk
    /\ srcKind = "file"
    /\ codec = NoCodec
    /\ poll = [phase |-> "idle"] /\ aes = [phase |-> "idle"] /\ call = [fn |-> "none"]
    /\ \E m \in {"direct", "transfer"} :
           prog = [mode |-> m,
                   transferred |-> 0,
                   writer |-> "none",
                   readers |-> {},
                   pc |-> [g \in Goroutines |-> "update"],
                   left |-> [g \in Goroutines |-> MaxUpdates],
                   floor |-> [g \in Goroutines |-> 0],
                   snap |-> [g \in Goroutines |-> 0],
                   asked |-> 0,
                   seen |-> 0]

ProgUnchanged ==
    UNCHANGED <<connVars, sndVars, chanVars, rcvVars, negVars, askVars, envVars,
                codecVars, poll, aes, call>>

\* p.Update(n), progress.go 56-58
ProgressUpdate(g) ==
    /\ prog.mode = "direct" /\ prog.pc[g] = "update"
    /\ \E n \in 0..MaxAmount :
           prog' = [prog EXCEPT !.transferred = AtomicAddInt64(@, n),
                                !.asked = @ + n,
                                !.pc[g] = "metrics"]
    /\ ProgUnchanged

\* p.Metrics() is called
MetricsCall(g) ==
    /\ prog.mode = "direct" /\ prog.pc[g] = "metrics"
    /\ prog' = [prog EXCEPT !.floor[g] = prog.seen, !.pc[g] = "load"]
    /\ ProgUnchanged

\* p.Metrics(), progress.go 122-151: atomic.LoadInt64 and the return
MetricsReturn(g) ==
    /\ prog.mode = "direct" /\ prog.pc[g] = "load"
    /\ prog' = [prog EXCEPT !.snap[g] = prog.transferred,
                            !.seen = Max(@, prog.transferred),
                            !.left[g] = @ - 1,
                            !.pc[g] = IF prog.left[g] = 1 THEN "done" ELSE "update"]
    /\ ProgUnchanged

\* tr.UpdateProgress(n): t.mu.Lock()
UpdateProgressLock(g) ==
    /\ prog.mode = "transfer" /\ prog.pc[g] = "update"
    /\ prog.writer = "none" /\ prog.readers = {}
    /\ prog' = [prog EXCEPT !.writer = g, !.floor[g] = prog.seen, !.pc[g] = "locked"]
    /\ ProgUnchanged

\* tr.UpdateProgress(n) under the lock: t.progress.Update(n), notifyCallback
\* without a callback, t.progress.Metrics(), and the deferred Unlock
UpdateProgressReturn(g) ==
    /\ prog.mode = "transfer" /\ prog.pc[g] = "locked"
    /\ \E n \in 0..MaxAmount :
           LET v == AtomicAddInt64(prog.transferred, n)
           IN  prog' = [prog EXCEPT !.transferred = v,
                                    !.asked = @ + n,
                                    !.snap[g] = v,
                                    !.seen = Max(@, v),
                                    !.writer = "none",
                                    !.pc[g] = "status"]
    /\ ProgUnchanged

\* tr.Status(): t.mu.RLock()
StatusRLock(g) ==
    /\ prog.mode = "transfer" /\ prog.pc[g] = "status"
    /\ prog.writer = "none"
    /\ prog' = [prog EXCEPT !.readers = @ \cup {g}, !.floor[g] = prog.seen,
                            !.pc[g] = "rlocked"]
    /\ ProgUnchanged

\* tr.Status() under the read lock: t.progress.Metrics() and the deferred RUnlock
StatusReturn(g) ==
    /\ prog.mode = "transfer" /\ prog.pc[g] = "rlocked"
    /\ prog' = [prog EXCEPT !.readers = @ \ {g},
                            !.snap[g] = prog.transferred,
                            !.seen = Max(@, prog.transferred),
                            !.left[g] = @ - 1,
                            !.pc[g] = IF prog.left[g] = 1 THEN "done" ELSE "update"]
    /\ ProgUnchanged

ProgressNext ==
    \E g \in Goroutines :
        \/ ProgressUpdate(g) \/ MetricsCall(g) \/ MetricsReturn(g)
        \/ UpdateProgressLock(g) \/ UpdateProgressReturn(g)
        \/ StatusRLock(g) \/ StatusReturn(g)

ProgressSpec == ProgressInit /\ [][ProgressNext]_vars

(* ---- readSignalFromFile: polling with a deadline ---- *)
\* a deadline that is never armed
DeadlineArmed_Never(timeout) == FALSE

\* if timeout > 0 { deadline = time.After(timeout) }: otherwise deadline stays
\* a nil channel, which no select case ever receives from
DeadlineArmed(timeout) == timeout > 0

\* time and polls are counted in ticks of the 100 ms ticker up to this value;
\* later instants are not told apart
MaxTime == MaxPollTimeout + 2

\* what os.ReadFile finds: no file, an empty (or blank) file, a signal, or a
\* file that cannot be read
FileStates == {"missing", "empty", "signal", "unreadable"}

PollInit ==
    /\ ConnInit
    /\ TransferInit({<<>>}, {NoFile}, {FALSE})
    /\ negA = NoParams /\ negB = NoParams /\ negRole = [fn |-> "none"]
    /\ ask = NoAsk
    /\ srcKind = "file"
    /\ codec = NoCodec
    /\ prog = [mode |-> "idle"] /\ aes = [phase |-> "idle"] /\ call = [fn |-> "none"]
    /\ \E timeout \in (0 - 1)..MaxPollTimeout :
           poll = [phase |-> "reading", timeout |-> timeout, now |-> 0, polls |-> 0,
                   tickerReady |-> FALSE, deadlineReady |-> FALSE]

PollUnchanged ==
    UNCHANGED <<connVars, sndVars, chanVars, rcvVars, negVars, askVars, envVars,
                codecVars, prog, aes, call>>

\* contents, err := os.ReadFile(path) and the branches on it, lines 291-300
PollRead ==
    /\ poll.phase = "reading"
    /\ \E f \in FileStates :
           poll' = [poll EXCEPT !.polls = Min(@ + 1, MaxTime + 1),
                                !.phase = IF f = "signal" THEN "returned"
                                          ELSE IF f = "unreadable" THEN "failed"
                                          ELSE "select"]
    /\ PollUnchanged

\* case <-ticker.C
PollTicker ==
    /\ poll.phase = "select" /\ poll.tickerReady
    /\ poll' = [poll EXCEPT !.tickerReady = FALSE, !.phase = "reading"]
    /\ PollUnchanged

\* case <-deadline: return "", fmt.Errorf("timed out waiting for signal file")
PollDeadline ==
    /\ poll.phase = "select" /\ poll.deadlineReady
    /\ poll' = [poll EXCEPT !.phase = "timedOut"]
    /\ PollUnchanged

\* 100 ms pass: the ticker delivers a tick (one is buffered at most) and
\* time.After delivers once the timeout has passed
PollTick ==
    /\ poll.phase \in {"reading", "select"}
    /\ poll' = [poll EXCEPT !.now = Min(@ + 1, MaxTime),
                            !.tickerReady = TRUE,
                            !.deadlineReady =
                                @ \/ (DeadlineArmed(poll.timeout)
                                      /\ poll.now + 1 >= poll.timeout)]
    /\ PollUnchanged

PollNext == PollRead \/ PollTicker \/ PollDeadline \/ PollTick

PollSpec == PollInit /\ [][PollNext]_vars

\* the goroutine runs, time passes, and select picks at random among the
\* cases that are ready
PollLiveSpec ==
    PollSpec /\ WF_vars(PollRead) /\ WF_vars(PollTicker) /\ WF_vars(PollTick)
             /\ SF_vars(PollDeadline)

(* ---- cmd/encrypt and cmd/decrypt: AES-256-CTR with a trailing IV ---- *)
\* block.BlockSize() of crypto/aes
aesBlockSize == 16

\* a ^ b on bytes
RECURSIVE Xor(_, _)
Xor(a, b) ==
    IF a = 0 THEN b
    ELSE IF b = 0 THEN a
    ELSE ((a + b) % 2) + 2 * Xor(a \div 2, b \div 2)

\* hashutils.FromKeyToAESKey: the SHA-256 of the passphrase, kept as one number
FromKeyToAESKey(userkey) ==
    LET RECURSIVE Mix(_)
        Mix(i) == IF i > Len(userkey) THEN 7 ELSE (userkey[i] + 31 * Mix(i + 1)) % 251
    IN  Mix(1)

\* byte i (from 0) of the key stream of cipher.NewCTR(block, iv): a fixed
\* function of key, IV and position
KeyStream(key, iv, i) == (key * 7 + iv[1] * 13 + iv[aesBlockSize] * 3 + i * 29 + 5) % 256

\* stream.XORKeyStream(dst, src) with the stream at position pos
XORKeyStream(key, iv, pos, bytes) ==
    [j \in 1..Len(bytes) |-> Xor(bytes[j], KeyStream(key, iv, pos + j - 1))]

\* the truncation that is missing
ClampToMessage_None(n, msgLen) == n

\* if n > int(msgLen) { n = int(msgLen) }, decrypt.go 99-101
ClampToMessage(n, msgLen) == IF n > msgLen THEN msgLen ELSE n

\* a file opened with O_RDWR|O_CREATE (no O_TRUNC) after written was written
\* from its start: what was there before stays beyond the written part
Overwritten(old, written) ==
    written \o SubSeq(old, Len(written) + 1, Len(old))

\* the passphrases of -k: none, and two different ones
Passphrases == {<<>>, <<107>>, <<107, 50>>}

\* the IVs rand.Reader delivers
IVs == {[i \in 1..aesBlockSize |-> 0], [i \in 1..aesBlockSize |-> (i * 11) % 256]}

\* what <file>.enc and <file>.dec hold before the run: nothing, or the
\* output of an earlier run on a longer file
StaleFiles == {<<>>, [i \in 1..(MaxFileLen + aesBlockSize + 1) |-> 9]}

CryptInit ==
    /\ ConnInit
    /\ TransferInit({<<>>}, {NoFile}, {FALSE})
    /\ negA = NoParams /\ negB = NoParams /\ negRole = [fn |-> "none"]
    /\ ask = NoAsk
    /\ srcKind = "file"
    /\ codec = NoCodec
    /\ prog = [mode |-> "idle"] /\ poll = [phase |-> "idle"] /\ call = [fn |-> "none"]
    /\ \E data \in SeqsUpTo(Bytes, MaxFileLen), k \in Passphrases,
          b \in 1..MaxBuffer, oldEnc \in StaleFiles, oldDec \in StaleFiles :
           aes = [phase |-> "start", data |-> data, keyphrase |-> k, bufferSize |-> b,
                  enc |-> oldEnc, dec |-> oldDec, iv |-> <<>>, pos |-> 0,
                  msgLen |-> 0, out |-> <<>>, fed |-> <<>>]

CryptUnchanged ==
    UNCHANGED <<connVars, sndVars, chanVars, rcvVars, negVars, askVars, envVars,
                codecVars, prog, poll, call>>

\* EncryptFile up to the read loop, part_001 57-88
EncryptOpen ==
    /\ aes.phase = "start"
    /\ \/ /\ aes.keyphrase = <<>>
          /\ aes' = [aes EXCEPT !.phase = "fatal"]
       \/ /\ aes.keyphrase # <<>>
          /\ \E iv \in IVs :
                 aes' = [aes EXCEPT !.phase = "encrypting", !.iv = iv, !.pos = 0,
                                    !.out = <<>>]
    /\ CryptUnchanged

\* one pass of EncryptFile's loop with n > 0, part_001 93-98: Read may deliver
\* fewer bytes than the buffer holds
EncryptChunk ==
    /\ aes.phase = "encrypting"
    /\ \E n \in 1..Min(aes.bufferSize, Len(aes.data) - aes.pos) :
           LET chunk == SubSeq(aes.data, aes.pos + 1, aes.pos + n)
               out == aes.out \o XORKeyStream(FromKeyToAESKey(aes.keyphrase),
                                              aes.iv, aes.pos, chunk)
           IN  aes' = [aes EXCEPT !.pos = @ + n, !.out = out,
                                  !.enc = Overwritten(@, out)]
    /\ CryptUnchanged

\* Read returns io.EOF: break, then outfile.Write(iv), part_001 99-108
EncryptEOF ==
    /\ aes.phase = "encrypting" /\ aes.pos = Len(aes.data)
    /\ aes' = [aes EXCEPT !.phase = "encrypted",
                          !.out = @ \o aes.iv,
                          !.enc = Overwritten(@, aes.out \o aes.iv)]
    /\ CryptUnchanged

\* decryptFile on <file>.enc up to the read loop, decrypt.go 52-92
DecryptOpen ==
    /\ aes.phase = "encrypted"
    /\ LET msgLen == Len(aes.enc) - aesBlockSize
       IN  aes' = IF msgLen < 0
                  THEN [aes EXCEPT !.phase = "fatal"]
                  ELSE [aes EXCEPT !.phase = "decrypting",
                                   !.msgLen = msgLen,
                                   !.iv = SubSeq(aes.enc, msgLen + 1,
                                                 msgLen + aesBlockSize),
                                   !.pos = 0, !.out = <<>>, !.fed = <<>>]
    /\ CryptUnchanged

\* one pass of decryptFile's loop with n > 0, decrypt.go 96-105
DecryptChunk ==
    /\ aes.phase = "decrypting"
    /\ \E read \in 1..Min(aes.bufferSize, Len(aes.enc) - aes.pos) :
           LET n == ClampToMessage(read, aes.msgLen)
               chunk == SubSeq(aes.enc, aes.pos + 1, aes.pos + n)
               out == aes.out \o XORKeyStream(FromKeyToAESKey(aes.keyphrase),
                                              aes.iv, Len(aes.fed), chunk)
           IN  aes' = [aes EXCEPT !.pos = @ + read,
                                  !.msgLen = @ - n,
                                  !.fed = @ \o chunk,
                                  !.out = out,
                                  !.dec = Overwritten(@, out)]
    /\ CryptUnchanged

\* Read returns io.EOF: break, decrypt.go 106-108
DecryptEOF ==
    /\ aes.phase = "decrypting" /\ aes.pos = Len(aes.enc)
    /\ aes' = [aes EXCEPT !.phase = "decrypted"]
    /\ CryptUnchanged

CryptNext ==
    EncryptOpen \/ EncryptChunk \/ EncryptEOF \/ DecryptOpen \/ DecryptChunk \/ DecryptEOF

CryptSpec == CryptInit /\ [][CryptNext]_vars

(* ---- file names: Metadata.Validate, Metadata.SafeFilename, isValidPath ---- *)
\* path/filepath is modelled as on Unix: '/' is the only separator and there
\* are no volume names. A string is a sequence of characters.
Chars == {"a", ".", "/", "\\", ":"}

Names == SeqsUpTo(Chars, MaxNameLen)

DotDot == <<".", ".">>

\* strings.Contains
Contains(s, sub) ==
    \E i \in 0..(Len(s) - Len(sub)) : SubSeq(s, i + 1, i + Len(sub)) = sub

\* strings.Split(s, sep) for a separator of one character
Split(s, sep) ==
    LET RECURSIVE F(_, _, _)
        F(i, cur, acc) ==
            IF i > Len(s) THEN Append(acc, cur)
            ELSE IF s[i] = sep THEN F(i + 1, <<>>, Append(acc, cur))
            ELSE F(i + 1, Append(cur, s[i]), acc)
    IN  F(1, <<>>, <<>>)

\* strings.Join(parts, "/")
JoinSlash(parts) ==
    LET RECURSIVE F(_)
        F(i) == IF i > Len(parts) THEN <<>>
                ELSE IF i = Len(parts) THEN parts[i]
                ELSE parts[i] \o <<"/">> \o F(i + 1)
    IN  F(1)

\* filepath.Clean
Clean(path) ==
    LET rooted == path # <<>> /\ path[1] = "/"
        parts == Split(path, "/")
        RECURSIVE Walk(_, _)
        Walk(i, out) ==
            IF i > Len(parts) THEN out
            ELSE IF parts[i] = <<>> \/ parts[i] = <<".">> THEN Walk(i + 1, out)
            ELSE IF parts[i] = DotDot
                 THEN IF Len(out) > 0 /\ out[Len(out)] # DotDot
                      THEN Walk(i + 1, SubSeq(out, 1, Len(out) - 1))
                      ELSE IF rooted THEN Walk(i + 1, out)
                      ELSE Walk(i + 1, Append(out, DotDot))
            ELSE Walk(i + 1, Append(out, parts[i]))
        joined == JoinSlash(Walk(1, <<>>))
    IN  IF rooted THEN <<"/">> \o joined
        ELSE IF joined = <<>> THEN <<".">>
        ELSE joined

\* filepath.IsAbs
IsAbs(path) == IsPrefix(<<"/">>, path)

\* filepath.VolumeName: empty on Unix
VolumeName(path) == <<>>

\* filepath.ToSlash: replaces the separator by '/', which it already is
ToSlash(path) == [i \in 1..Len(path) |-> IF path[i] = "/" THEN "/" ELSE path[i]]

\* filepath.Base
Base(path) ==
    LET parts == SelectSeq(Split(path, "/"), LAMBDA e : e # <<>>)
    IN  IF path = <<>> THEN <<".">>
        ELSE IF parts = <<>> THEN <<"/">>
        ELSE parts[Len(parts)]

\* filepath.Dir
Dir(path) ==
    LET slashes == {i \in 1..Len(path) : path[i] = "/"}
        last == IF slashes = {} THEN 0 ELSE CHOOSE i \in slashes : \A j \in slashes : j <= i
    IN  Clean(SubSeq(path, 1, last))

\* filepath.Join(a, b)
Join(a, b) == IF b = <<>> THEN Clean(a) ELSE Clean(a \o <<"/">> \o b)

\* a validation without the check for a Windows-style absolute path
Validate_NoDriveCheck(filename, size) ==
    LET clean == Clean(filename)
    IN  IF filename = <<>> THEN "filename cannot be empty"
        ELSE IF size < 0 THEN "size cannot be negative"
        ELSE IF IsPrefix(DotDot, clean) \/ IsAbs(clean) \/ Contains(filename, DotDot)
                \/ IsPrefix(<<"/">>, filename)
             THEN "invalid filename: path traversal not allowed"
        ELSE IF Contains(filename, <<"\\">>)
             THEN "invalid filename: backslashes not allowed"
        ELSE "nil"

\* Metadata.Validate, part_008 139-165: the error, or "nil"
Validate(filename, size) ==
    LET clean == Clean(filename)
    IN  IF filename = <<>> THEN "filename cannot be empty"
        ELSE IF size < 0 THEN "size cannot be negative"
        ELSE IF IsPrefix(DotDot, clean) \/ IsAbs(clean) \/ Contains(filename, DotDot)
                \/ IsPrefix(<<"/">>, filename)
             THEN "invalid filename: path traversal not allowed"
        ELSE IF Len(filename) >= 2 /\ filename[2] = ":"
             THEN "invalid filename: absolute path not allowed"
        ELSE IF Contains(filename, <<"\\">>)
             THEN "invalid filename: backslashes not allowed"
        ELSE "nil"

\* Metadata.SafeFilename, part_008 170-191
SafeFilename(filename) ==
    LET c1 == Clean(filename)
        c2 == [i \in 1..Len(c1) |-> IF c1[i] = "\\" THEN "/" ELSE c1[i]]
        c3 == IF Len(c2) >= 2 /\ c2[2] = ":" THEN SubSeq(c2, 3, Len(c2)) ELSE c2
        c4 == Base(c3)
    IN  IF c4 = <<>> \/ c4 = <<".">> \/ c4 = DotDot
        THEN <<"unnamed">>
        ELSE c4

\* a path check that lets '..' through
isValidPath_Lax(path) == ~IsAbs(path)

\* isValidPath, integration_webrtc_test.go 559-576
isValidPath(path) ==
    LET cleanPath == ToSlash(Clean(path))
    IN  /\ ~(IsAbs(path) \/ VolumeName(path) # <<>>)
        /\ ~IsPrefix(<<"/">>, cleanPath)
        /\ \A i \in 1..Len(Split(cleanPath, "/")) : Split(cleanPath, "/")[i] # DotDot
        /\ ~Contains(path, DotDot)

\* the directory ExtractTarGz extracts into
DestPath == <<"/", "d">>

\* the tar entry types: directory, regular file, symlink, and one that
\* ExtractTarGz skips
Typeflags == {"dir", "reg", "symlink", "other"}

PathInit ==
    /\ ConnInit
    /\ TransferInit({<<>>}, {NoFile}, {FALSE})
    /\ negA = NoParams /\ negB = NoParams /\ negRole = [fn |-> "none"]
    /\ ask = NoAsk
    /\ srcKind = "file"
    /\ codec = NoCodec
    /\ prog = [mode |-> "idle"] /\ poll = [phase |-> "idle"] /\ aes = [phase |-> "idle"]
    /\ \E name \in Names : call = [fn |-> "new", name |-> name]

PathUnchanged ==
    UNCHANGED <<connVars, sndVars, chanVars, rcvVars, negVars, askVars, envVars,
                codecVars, prog, poll, aes>>

\* err := m.Validate()
CallValidate ==
    /\ call.fn = "new"
    /\ \E size \in {0 - 1, 1} :
           call' = [fn |-> "Validate", name |-> call.name, size |-> size,
                    err |-> Validate(call.name, size)]
    /\ PathUnchanged

\* m.SafeFilename()
CallSafeFilename ==
    /\ call.fn = "new"
    /\ call' = [fn |-> "SafeFilename", name |-> call.name,
                out |-> SafeFilename(call.name)]
    /\ PathUnchanged

\* header.Linkname of a symlink entry: a directory outside the destination,
\* named absolutely or relatively, and the directory of the link itself
Linknames == {<<"/", "e">>, <<".", ".", "/", "e">>, <<".">>}

\* the directories that exist before the extraction: the root, one more
\* directory, and the destination (made by the caller's os.MkdirAll)
DirsBefore == {<<"/">>, <<"/", "e">>, DestPath}

\* the elements of a path
Elements(path) == SelectSeq(Split(path, "/"), LAMBDA e : e # <<>>)

\* the proper prefixes of an absolute path and the path itself
Prefixes(path) ==
    {<<"/">> \o JoinSlash(SubSeq(Elements(path), 1, k)) :
         k \in 0..Len(Elements(path))}

RECURSIVE ResolveFrom(_, _, _, _, _)
RECURSIVE ResolveNext(_, _, _, _, _, _)

\* the walk of RealPath: cur is the place reached, rest the elements still to
\* go, fuel the number of links that may still be followed
ResolveFrom(links, cur, rest, follow, fuel) ==
    IF rest = <<>> THEN cur
    ELSE ResolveNext(links, cur, rest, follow, fuel, Join(cur, rest[1]))

\* one element further, to next: a symbolic link there is replaced by what
\* it points to, taken from the directory that holds the link
ResolveNext(links, cur, rest, follow, fuel, next) ==
    IF (\E l \in links : l.at = next) /\ (Len(rest) > 1 \/ follow) /\ fuel > 0
    THEN LET to == (CHOOSE l \in links : l.at = next).to
         IN  ResolveFrom(links, <<"/">>,
                         Elements(IF IsAbs(to) THEN Clean(to) ELSE Join(cur, to))
                             \o Tail(rest),
                         follow, fuel - 1)
    ELSE ResolveFrom(links, next, Tail(rest), follow, fuel)

\* where the operating system finds an absolute path: the symbolic links on
\* the way are followed, the last element only when follow is set. links:
\* the symbolic links, as records [at, to]
RealPath(links, path, follow) ==
    ResolveFrom(links, <<"/">>, Elements(path), follow, 2)

\* ExtractTarGz is called on an archive whose last entry has the name; it may
\* follow an entry "a" that is a regular file or a symbolic link
ExtractTarGz ==
    /\ call.fn = "new"
    /\ \E typ \in Typeflags, link \in Linknames,
          before \in {<<>>, <<[name |-> <<"a">>, typ |-> "reg", link |-> <<>>]>>}
                     \cup {<<[name |-> <<"a">>, typ |-> "symlink", link |-> l]>> :
                               l \in Linknames} :
           /\ typ # "symlink" => link = <<".">>
           /\ call' = [fn |-> "ExtractTarGz", name |-> call.name,
                       entries |-> Append(before,
                                          [name |-> call.name, typ |-> typ,
                                           link |-> IF typ = "symlink" THEN link
                                                    ELSE <<>>]),
                       next |-> 1, created |-> {}, err |-> "running", made |-> {},
                       dirs |-> DirsBefore, files |-> {}, links |-> {}]
    /\ PathUnchanged

\* the end of a pass of the loop, lines 379-396: extractDir, extractFile or
\* extractSymlink at the place real, whose directories on the way are tree;
\* newDirs: what os.MkdirAll had to make for the parent
ExtractTo(c, header, real, tree, newDirs) ==
    LET fails == CASE header.typ = "dir" -> tree \cap c.files # {}
                   [] header.typ = "reg" -> real \in c.dirs \cup newDirs
                   [] header.typ = "symlink" -> real \in c.dirs \cup newDirs
                   [] OTHER -> FALSE
        made == newDirs \cup
                (IF fails \/ header.typ = "other" THEN {}
                 ELSE IF header.typ = "dir" THEN tree \ c.dirs
                 ELSE {real})
        after == [c EXCEPT !.created = @ \cup made, !.made = made,
                           !.dirs = @ \cup newDirs]
    IN  IF fails
        THEN [after EXCEPT !.err = IF header.typ = "dir" THEN "create dir error"
                                   ELSE IF header.typ = "reg"
                                   THEN "create file error"
                                   ELSE "create symlink error"]
        ELSE CASE header.typ = "dir" ->
                      [after EXCEPT !.dirs = @ \cup tree, !.next = @ + 1]
               [] header.typ = "reg" ->
                      [after EXCEPT !.files = @ \cup {real}, !.next = @ + 1]
               [] header.typ = "symlink" ->
                      [after EXCEPT
                           !.files = @ \ {real},
                           !.links = {l \in @ : l.at # real}
                                     \cup {[at |-> real, to |-> header.link]},
                           !.next = @ + 1]
               [] OTHER -> [after EXCEPT !.next = @ + 1]

\* lines 374-377: os.MkdirAll(filepath.Dir(targetPath)), where above is the
\* parent directory and the directories on the way to it
ExtractAt(c, header, above, real) ==
    IF above \cap c.files # {}
    THEN [c EXCEPT !.err = "mkdir error", !.made = {}]
    ELSE ExtractTo(c, header, real, Prefixes(real), above \ c.dirs)

\* lines 371-377 with the places the operating system resolves the paths to
ExtractHeader(c, header, entryPath) ==
    ExtractAt(c, header,
              Prefixes(RealPath(c.links, Dir(entryPath), TRUE)),
              RealPath(c.links, entryPath, header.typ # "symlink"))

\* one pass of the loop of ExtractTarGz, lines 357-397. dirs, files, links:
\* the directories, regular files and symbolic links of the file system, by
\* the place they are really at; made: what this pass created or wrote;
\* created: the same for all passes
ExtractEntry ==
    /\ call.fn = "ExtractTarGz" /\ call.err = "running"
    /\ call.next <= Len(call.entries)
    /\ call' = IF ~isValidPath(call.entries[call.next].name)
               THEN [call EXCEPT !.err = "invalid path in archive", !.made = {}]
               ELSE ExtractHeader(call, call.entries[call.next],
                                  Join(DestPath, call.entries[call.next].name))
    /\ PathUnchanged

\* tarReader.Next() returns io.EOF: return nil
ExtractEOF ==
    /\ call.fn = "ExtractTarGz" /\ call.err = "running"
    /\ call.next > Len(call.entries)
    /\ call' = [call EXCEPT !.err = "nil"]
    /\ PathUnchanged

\* os.Getwd() of the receiver
Cwd == <<"/", "w">>

\* the file a path names when the process opens it in directory cwd
OpenPath(cwd, path) == IF IsAbs(path) THEN Clean(path) ELSE Join(cwd, path)

\* path p lies below directory base
Inside(base, p) == IsPrefix(base \o <<"/">>, p)

\* os.Create can make a file of this name: the name has a last element that
\* is no directory
Creatable(path) ==
    /\ path # <<>>
    /\ path[Len(path)] # "/"
    /\ Base(path) \notin {<<".">>, DotDot}

\* Connection, root.go 108-150: the role from the file flag, and
\* sctp.OnDataChannel(datachannel.FileTransferHandler), registered whatever
\* the role is. name: the label of the channel the remote peer will open
Connection ==
    /\ call.fn = "new"
    /\ \E offer \in BOOLEAN, auto \in BOOLEAN :
           call' = [fn |-> "Connection", name |-> call.name, isOffer |-> offer,
                    autoAccept |-> auto, onDataChannel |-> "FileTransferHandler"]
    /\ PathUnchanged

\* the remote peer opens a channel and the registered handler runs:
\* FileTransferHandler (handlers.go 21-112) with no file at the target. It
\* asks unless AutoAccept is set; when the transfer is accepted the label,
\* cut by ".tar.gz" for an archive, is the path given to os.Create (line 116)
\* or joined to the working directory for os.MkdirAll (lines 214-215)
HandleLabel ==
    /\ call.fn = "Connection"
    /\ call.onDataChannel = "FileTransferHandler"
    /\ \E archive \in BOOLEAN, answer \in BOOLEAN, createOK \in BOOLEAN :
           LET lbl == IF archive THEN call.name \o <<".tar.gz">> ELSE call.name
               isArch == HasSuffix(lbl, <<".tar.gz">>)
               tgt == IF isArch THEN TrimSuffix(lbl, <<".tar.gz">>) ELSE lbl
               accept == call.autoAccept \/ answer
               made == IF ~accept \/ ~createOK THEN {}
                       ELSE IF isArch THEN {Join(Cwd, tgt)}
                       ELSE IF Creatable(tgt) THEN {OpenPath(Cwd, tgt)}
                       ELSE {}
           IN  call' = [fn |-> "FileTransferHandler", name |-> call.name,
                        isOffer |-> call.isOffer, label |-> lbl,
                        isArchive |-> isArch, prompted |-> ~call.autoAccept,
                        made |-> made]
    /\ PathUnchanged

PathNext ==
    \/ CallValidate \/ CallSafeFilename \/ ExtractTarGz \/ ExtractEntry \/ ExtractEOF
    \/ Connection \/ HandleLabel

PathSpec == PathInit /\ [][PathNext]_vars

(* ---- Transfer: the state machine, its mutex and its callback ---- *)
\* type State, progress_test.go 360-376
StateIdle == 0
StateMetadata == 1
StateTransferring == 2
StateVerifying == 3
StateComplete == 4
StateFailed == 5

\* the Metadata handed to StartReceive
Metadatas ==
    {[name |-> n, size |-> s] : n \in {<<"a">>, <<>>, <<".", ".", "/", "a">>},
                                s \in {0 - 1, 1}}

\* the callbacks handed to SetProgressCallback: nil, one that counts its
\* calls, and one that calls tr.Status()
Callbacks == {"nil", "counter", "reader"}

\* the calls of the public methods that take the write lock or the read lock
Ops ==
    {[fn |-> "SetProgressCallback", cb |-> c] : c \in Callbacks}
    \cup {[fn |-> "StartSend", err |-> e] : e \in {"nil", "failed to stat file"}}
    \cup {[fn |-> "StartReceive", metadata |-> m] : m \in Metadatas}
    \cup {[fn |-> "UpdateProgress", bytes |-> n] : n \in 0..MaxAmount}
    \cup {[fn |-> f] : f \in {"MetadataSent", "Complete", "Fail", "Status"}}

\* a StartReceive that installs the metadata whatever Validate says
StartReceiveFails_Never(err) == FALSE

\* StartReceive, line 467: if err := metadata.Validate(); err != nil
StartReceiveFails(err) == err # "nil"

\* the body of a method between Lock and notifyCallback: the fields after it,
\* what it returns, and whether it reaches notifyCallback
Body(tr, op) ==
    LET same == [state |-> tr.state, err |-> tr.err, metadata |-> tr.metadata,
                 progress |-> tr.progress, callback |-> tr.callback,
                 ret |-> "none", notify |-> TRUE]
    IN  CASE op.fn = "SetProgressCallback" ->
                 [same EXCEPT !.callback = op.cb, !.notify = FALSE]
          [] op.fn = "StartSend" ->
                 IF op.err # "nil"
                 THEN [same EXCEPT !.metadata = <<>>, !.state = StateFailed,
                                   !.err = op.err, !.ret = op.err, !.notify = FALSE]
                 ELSE [same EXCEPT !.metadata = <<[name |-> <<"a">>, size |-> 1]>>,
                                   !.progress = <<0>>, !.state = StateMetadata,
                                   !.ret = "nil"]
          [] op.fn = "StartReceive" ->
                 LET err == Validate(op.metadata.name, op.metadata.size)
                 IN  IF StartReceiveFails(err)
                     THEN [same EXCEPT !.state = StateFailed, !.err = err,
                                       !.ret = err, !.notify = FALSE]
                     ELSE [same EXCEPT !.metadata = <<op.metadata>>, !.progress = <<0>>,
                                       !.state = StateTransferring, !.ret = "nil"]
          [] op.fn = "MetadataSent" -> [same EXCEPT !.state = StateTransferring]
          [] op.fn = "UpdateProgress" ->
                 IF tr.progress = <<>> THEN same
                 ELSE [same EXCEPT !.progress = <<@[1] + op.bytes>>]
          [] op.fn = "Complete" -> [same EXCEPT !.state = StateComplete]
          [] op.fn = "Fail" ->
                 [same EXCEPT !.state = StateFailed, !.err = "failed"]

\* NewTransfer, lines 423-427. metadata and progress: empty for nil, else
\* the one value; progress holds the transferred bytes. op: the call in progress; before: the state
\* when it was made; delivered: the states of the Status values the callback
\* got during it; nested: the callback is inside tr.Status()
TransferStateInit ==
    /\ ConnInit
    /\ TransferInit({<<>>}, {NoFile}, {FALSE})
    /\ negA = NoParams /\ negB = NoParams /\ negRole = [fn |-> "none"]
    /\ ask = NoAsk
    /\ srcKind = "file"
    /\ codec = NoCodec
    /\ poll = [phase |-> "idle"] /\ aes = [phase |-> "idle"] /\ call = [fn |-> "none"]
    /\ prog = [mode |-> "machine",
               state |-> StateIdle, err |-> "nil", metadata |-> <<>>,
               progress |-> <<>>, callback |-> "nil",
               writer |-> FALSE, readers |-> 0,
               pc |-> "idle", op |-> [fn |-> "none"], calls |-> 0,
               before |-> StateIdle, had |-> <<<<>>, <<>>>>,
               delivered |-> <<>>, nested |-> FALSE, ret |-> "none"]

\* a method of the Transfer is called
TransferCall ==
    /\ prog.mode = "machine" /\ prog.pc = "idle"
    /\ prog.calls < MaxCalls
    /\ \E op \in Ops :
           prog' = [prog EXCEPT !.op = op,
                                !.calls = @ + 1,
                                !.before = prog.state,
                                !.had = <<prog.metadata, prog.progress>>,
                                !.delivered = <<>>,
                                !.ret = "none",
                                !.pc = IF op.fn = "Status" THEN "rlock" ELSE "lock"]
    /\ ProgUnchanged

\* t.mu.Lock()
TransferLock ==
    /\ prog.mode = "machine" /\ prog.pc = "lock"
    /\ ~prog.writer /\ prog.readers = 0
    /\ prog' = [prog EXCEPT !.writer = TRUE, !.pc = "body"]
    /\ ProgUnchanged

\* the method's body; without a callback, or on a path that does not notify,
\* the deferred t.mu.Unlock() and the return
TransferBody ==
    /\ prog.mode = "machine" /\ prog.pc = "body"
    /\ LET b == Body(prog, prog.op)
           calls == b.notify /\ b.callback # "nil"
       IN  prog' = [prog EXCEPT !.state = b.state, !.err = b.err,
                                !.metadata = b.metadata, !.progress = b.progress,
                                !.callback = b.callback, !.ret = b.ret,
                                !.writer = calls,
                                !.pc = IF calls THEN "notify" ELSE "idle"]
    /\ ProgUnchanged

\* notifyCallback, lines 576-593: t.callback(status), still under the write
\* lock. The counting callback returns, and so does the method; the reading
\* callback calls tr.Status()
TransferNotify ==
    /\ prog.mode = "machine" /\ prog.pc = "notify"
    /\ prog' = IF prog.callback = "counter"
               THEN [prog EXCEPT !.delivered = Append(@, prog.state),
                                 !.writer = FALSE,
                                 !.pc = "idle"]
               ELSE [prog EXCEPT !.delivered = Append(@, prog.state),
                                 !.nested = TRUE,
                                 !.pc = "rlock"]
    /\ ProgUnchanged

\* Status, line 525: t.mu.RLock(), which waits while the write lock is held
TransferRLock ==
    /\ prog.mode = "machine" /\ prog.pc = "rlock"
    /\ ~prog.writer
    /\ prog' = [prog EXCEPT !.readers = @ + 1, !.pc = "rbody"]
    /\ ProgUnchanged

\* Status, lines 526-540: the snapshot, the deferred RUnlock and the return;
\* inside a callback the callback and the method that called it return too
TransferStatusReturn ==
    /\ prog.mode = "machine" /\ prog.pc = "rbody"
    /\ prog' = [prog EXCEPT !.readers = @ - 1,
                            !.ret = IF prog.nested THEN @ ELSE "status",
                            !.nested = FALSE,
                            !.writer = FALSE,
                            !.pc = "idle"]
    /\ ProgUnchanged

TransferStateNext ==
    \/ TransferCall \/ TransferLock \/ TransferBody \/ TransferNotify
    \/ TransferRLock \/ TransferStatusReturn

TransferStateSpec == TransferStateInit /\ [][TransferStateNext]_vars

\* every call that can take a step does
TransferStateLiveSpec == TransferStateSpec /\ WF_vars(TransferStateNext)

(* ---- writeSignalToFile in one process, readSignalFromFile in the other ---- *)
\* the encoded signals: base64 text, so without white space
EncodedSignals == UNION {[1..n -> {65, 66}] : n \in 1..MaxFileLen}

\* wpc: the writer's place in os.WriteFile; file: <<>> while the path names
\* no file, else <<contents>>; rpc: the reader's place in its loop; got: what
\* readSignalFromFile returned
SignalFileInit ==
    /\ ConnInit
    /\ TransferInit({<<>>}, {NoFile}, {FALSE})
    /\ negA = NoParams /\ negB = NoParams /\ negRole = [fn |-> "none"]
    /\ ask = NoAsk
    /\ srcKind = "file"
    /\ codec = NoCodec
    /\ prog = [mode |-> "idle"] /\ aes = [phase |-> "idle"] /\ call = [fn |-> "none"]
    /\ \E s \in EncodedSignals :
           poll = [phase |-> "shared", signal |-> s, file |-> <<>>,
                   wpc |-> "start", written |-> 0,
                   rpc |-> "reading", got |-> <<>>]

\* os.WriteFile, root.go 311: OpenFile(path, O_WRONLY|O_CREATE|O_TRUNC, 0600)
WriteFileOpen ==
    /\ poll.phase = "shared" /\ poll.wpc = "start"
    /\ poll' = [poll EXCEPT !.file = <<<<>>>>, !.wpc = "writing"]
    /\ PollUnchanged

\* os.WriteFile: f.Write(data), which reaches the file in one piece or in
\* several; the file system makes each piece visible as it lands
WriteFileWrite ==
    /\ poll.phase = "shared" /\ poll.wpc = "writing"
    /\ poll.written < Len(poll.signal)
    /\ \E n \in 1..(Len(poll.signal) - poll.written) :
           poll' = [poll EXCEPT
                        !.file = <<@[1] \o SubSeq(poll.signal, poll.written + 1,
                                                  poll.written + n)>>,
                        !.written = @ + n]
    /\ PollUnchanged

\* os.WriteFile: f.Close() and the return
WriteFileClose ==
    /\ poll.phase = "shared" /\ poll.wpc = "writing"
    /\ poll.written = Len(poll.signal)
    /\ poll' = [poll EXCEPT !.wpc = "done"]
    /\ PollUnchanged

\* readSignalFromFile, lines 291-300: os.ReadFile; a missing or blank file
\* goes on to the select, any other content is returned
SignalRead ==
    /\ poll.phase = "shared" /\ poll.rpc = "reading"
    /\ poll' = IF poll.file = <<>> \/ poll.file[1] = <<>>
               THEN [poll EXCEPT !.rpc = "select"]
               ELSE [poll EXCEPT !.rpc = "returned", !.got = poll.file[1]]
    /\ PollUnchanged

\* lines 302-306: the ticker fires and the loop reads again
SignalTicker ==
    /\ poll.phase = "shared" /\ poll.rpc = "select"
    /\ poll' = [poll EXCEPT !.rpc = "reading"]
    /\ PollUnchanged

\* lines 302-306: the deadline fires
SignalDeadline ==
    /\ poll.phase = "shared" /\ poll.rpc = "select"
    /\ poll' = [poll EXCEPT !.rpc = "timedOut"]
    /\ PollUnchanged

SignalFileNext ==
    \/ WriteFileOpen \/ WriteFileWrite \/ WriteFileClose
    \/ SignalRead \/ SignalTicker \/ SignalDeadline

SignalFileSpec == SignalFileInit /\ [][SignalFileNext]_vars

(* ---- the two prompts of FileTransferHandler on one standard input ---- *)
\* the lines on standard input, without their newline
AnswerLines == {<<>>, <<"y">>, <<"n">>, <<"m">>}

\* bufio.NewReader(in), handlers.go 238: a reader with an empty buffer
NewReader == <<>>

\* FileTransferHandler with a file at the target and without AutoAccept: it
\* asks "Receive ...?" (line 68) and then "... exists. Overwrite?" (line 85).
\* stdin: all lines of standard input, then EOF; taken: how many of them Read
\* calls have taken from the descriptor; buffer: the numbers of the lines the
\* current bufio.Reader holds; receiveAt: the number of the line that
\* answered the receive prompt; firstAt: the number of the first line the
\* overwrite prompt got
StdinInit ==
    /\ ConnInit
    /\ TransferInit({<<>>}, {NoFile}, {FALSE})
    /\ negA = NoParams /\ negB = NoParams /\ negRole = [fn |-> "none"]
    /\ ask = NoAsk
    /\ srcKind = "file"
    /\ codec = NoCodec
    /\ prog = [mode |-> "idle"] /\ poll = [phase |-> "idle"] /\ aes = [phase |-> "idle"]
    /\ \E in \in SeqsUpTo(AnswerLines, MaxLines) :
           call = [fn |-> "askForConfirmation", stdin |-> in, taken |-> 0,
                   buffer |-> NewReader, prompt |-> "receive", tries |-> Tries,
                   receiveAt |-> 0, firstAt |-> 0, out |-> "asking"]

\* reader.ReadString('\n') with an empty buffer: one Read on os.Stdin, which
\* returns what is there up to the buffer size: one line on a terminal, every
\* line already written on a pipe or a file. At EOF: log.Fatal(err)
StdinFill ==
    /\ call.fn = "askForConfirmation" /\ call.out = "asking"
    /\ call.tries > 0 /\ call.buffer = <<>>
    /\ IF call.taken = Len(call.stdin)
       THEN call' = [call EXCEPT !.out = "fatal"]
       ELSE \E n \in 1..(Len(call.stdin) - call.taken) :
                call' = [call EXCEPT !.buffer = [i \in 1..n |-> call.taken + i],
                                     !.taken = @ + n]
    /\ PathUnchanged

\* reader.ReadString('\n') returns the first buffered line, and the body of
\* the loop, lines 246-258. An answer ends the prompt; a yes to the receive
\* prompt leads to the overwrite prompt, which makes its own reader
StdinReadString ==
    /\ call.fn = "askForConfirmation" /\ call.out = "asking"
    /\ call.tries > 0 /\ call.buffer # <<>>
    /\ LET at == Head(call.buffer)
           a == AskOnce(call.stdin[at] \o <<"\n">>)
           first == IF call.prompt = "overwrite" /\ call.firstAt = 0
                    THEN at ELSE call.firstAt
       IN  call' =
             IF a = "retry"
             THEN [call EXCEPT !.buffer = Tail(@), !.tries = @ - 1, !.firstAt = first]
             ELSE IF call.prompt = "receive" /\ a = "yes"
             THEN [call EXCEPT !.buffer = NewReader, !.tries = Tries,
                               !.prompt = "overwrite", !.receiveAt = at]
             ELSE [call EXCEPT !.buffer = Tail(@), !.firstAt = first,
                               !.receiveAt = IF call.prompt = "receive" THEN at ELSE @,
                               !.out = a]
    /\ PathUnchanged

\* line 261: the loop ran out of tries
StdinGiveUp ==
    /\ call.fn = "askForConfirmation" /\ call.out = "asking"
    /\ call.tries = 0
    /\ call' = [call EXCEPT !.out = "no"]
    /\ PathUnchanged

StdinNext == StdinFill \/ StdinReadString \/ StdinGiveUp

StdinSpec == StdinInit /\ [][StdinNext]_vars

(* ---- pkg/tui: Model.Update ---- *)
\* type State, tui.go 17-22
StateConnection == 0
StateTransfer == 1
StateDone == 2
StateError == 3

\* the messages Update gets: a window size, the keys q and x, the three
\* messages of the package, and a message of some other type
Msgs ==
    {[type |-> "WindowSizeMsg", width |-> w] : w \in {80, 100}}
    \cup {[type |-> "KeyMsg", key |-> k] : k \in {"q", "x"}}
    \cup {[type |-> "ErrorMsg", err |-> e] : e \in {"e1", "e2"}}
    \cup {[type |-> x] : x \in {"ConnectionReadyMsg", "TransferCompleteMsg", "other"}}

\* Model.Update, tui.go 50-101: the model returned and whether the command
\* returned is tea.Quit. The sub-models that the last switch hands the
\* message to hold no state of the Model
Update(m, msg) ==
    CASE msg.type = "WindowSizeMsg" -> [m EXCEPT !.width = msg.width, !.quit = FALSE]
      [] msg.type = "KeyMsg" /\ msg.key = "q" -> [m EXCEPT !.quit = TRUE]
      [] msg.type = "ConnectionReadyMsg" ->
             [m EXCEPT !.state = StateTransfer, !.quit = FALSE]
      [] msg.type = "TransferCompleteMsg" ->
             [m EXCEPT !.state = StateDone, !.quit = TRUE]
      [] msg.type = "ErrorMsg" ->
             [m EXCEPT !.state = StateError, !.err = msg.err, !.quit = TRUE]
      [] OTHER -> [m EXCEPT !.quit = FALSE]

\* NewModel, tui.go 35-43
TuiInit ==
    /\ ConnInit
    /\ TransferInit({<<>>}, {NoFile}, {FALSE})
    /\ negA = NoParams /\ negB = NoParams /\ negRole = [fn |-> "none"]
    /\ ask = NoAsk
    /\ srcKind = "file"
    /\ codec = NoCodec
    /\ prog = [mode |-> "idle"] /\ poll = [phase |-> "idle"] /\ aes = [phase |-> "idle"]
    /\ call = [fn |-> "tui",
               m |-> [state |-> StateConnection, err |-> "nil", width |-> 80,
                      quit |-> FALSE],
               msg |-> [type |-> "none"], sent |-> 0]

\* the runtime hands the next message to Update and keeps the model it
\* returns
TuiUpdate ==
    /\ call.fn = "tui"
    /\ call.sent < MaxCalls
    /\ \E msg \in Msgs :
           call' = [call EXCEPT !.m = Update(call.m, msg), !.msg = msg,
                                !.sent = @ + 1]
    /\ PathUnchanged

TuiNext == TuiUpdate

TuiSpec == TuiInit /\ [][TuiNext]_vars

(* ======================= the claims ======================= *)

\* the receiver accepted the channel in file mode, the sender read its source
\* to EOF, the channel closed after that and the receiver's OnClose has run
StreamedAndClosed ==
    /\ rcvMode = "file"
    /\ readEnd = "eof"
    /\ closedAfterEOF
    /\ exitCode["rcv"] = 0

\* C1: in every run in which the sender streams the file to EOF and the channel
\* then closes, the bytes the receiver has written to the target file are
\* exactly the bytes of the source file, in order.
C1_ReceivedEqualsSource == StreamedAndClosed => target = src

\* C2: at every moment the concatenation of the payloads channel.Send accepted
\* is a prefix of the source file (no chunk is dropped or reordered).
C2_SentIsPrefixOfSource == IsPrefix(sent, src)

\* C3: once the sender's read loop has ended on EOF, the sender itself has
\* closed the data channel.
C3_SenderClosesOnEOF ==
    (readEnd = "eof" /\ sndLoop = "done") => (chan = "closed" /\ closedBy = "sender")

\* both peers went through the whole bring-up
HandshakeComplete ==
    /\ steps["snd"] = Order
    /\ steps["rcv"] = SubSeq(Order, 1, Len(Order) - 1)

\* the sender read the whole source and every Send succeeded; the receiver
\* took the channel in file mode and every write succeeded
StreamedWithoutError ==
    /\ readEnd = "eof" /\ ~sendErrSeen
    /\ rcvMode = "file" /\ ~writeErrSeen

\* C4: in every run where both peers complete the handshake and the sender
\* streams the whole file without error, both processes eventually terminate
\* with exit code 0: whenever neither process can take another step, both
\* have exited with code 0.
C4_BothTerminateWithZero ==
    (HandshakeComplete /\ StreamedWithoutError)
        => ((exitCode["snd"] = 0 /\ exitCode["rcv"] = 0) \/ ENABLED ProgramNext)

\* a read of the source or a Send has failed
SenderFailed == sendErrSeen \/ readEnd = "err"

\* C5: if reading the source or sending a chunk fails, the sender hands no
\* further chunk to the channel, and once its loop has ended it has closed the
\* channel and exited with a non-zero code.
C5_SenderStopsOnError ==
    /\ SenderFailed => ~lateSend
    /\ (SenderFailed /\ sndLoop = "done")
          => (closedBy = "sender" /\ exitCode["snd"] >= 1)

\* C6: when the channel has closed and the receiver (file mode) has exited, its
\* exit code is 0 exactly when it received the whole source; a close before
\* that gives a non-zero code.
C6_TruncatedReceiveExitsNonZero ==
    (rcvMode = "file" /\ chan = "closed" /\ exitCode["rcv"] # Running)
        => (exitCode["rcv"] = 0 <=> target = src)

\* the steps a peer has started are an initial part of the fixed order, each
\* started only after the one before it returned without error
StepsInOrder(p) ==
    /\ IsPrefix(steps[p], Order)
    /\ ~isOffer(p) => Len(steps[p]) < Len(Order)
    /\ pc[p] # "exited" => Rank(pc[p]) = Len(steps[p])
    /\ failedStep[p] # "none" => steps[p][Len(steps[p])] = failedStep[p]

C9_RoleFromNegotiator ==
    \A p \in Peers :
        startedRole[p] # "none" =>
            startedRole[p] = DetermineICERoleWithDTLS(
                                 signal[p].ice, remoteSignal[p].ice,
                                 signal[p].dtls, remoteSignal[p].dtls)

\* exactly one of the two calls returned Controlling
Opposite(r) ==
    /\ r.ab # r.ba
    /\ (r.ab = "controlling") # (r.ba = "controlling")
    /\ {r.ab, r.ba} = {"controlling", "controlled"}

\* C10 as stated: whenever the ICE parameter sets (ufrag, password) of A and B
\* differ, role(A,B) and role(B,A) are opposite.
C10_OppositeWhenParametersDiffer ==
    (negRole.fn = "dtls" /\ negA.ice # negB.ice) => Opposite(negRole)

\* the inputs on which DetermineICERoleWithDTLS decides by a strict comparison
KeysDiffer(a, b) ==
    \/ a.ice.ufrag # b.ice.ufrag
    \/ /\ Len(a.dtls.fps) > 0 /\ Len(b.dtls.fps) > 0
       /\ a.dtls.fps[1] # b.dtls.fps[1]

\* C10 amended: role(A,B) and role(B,A) are opposite whenever the ufrags differ
\* or, the ufrags being equal, both peers have a first DTLS fingerprint and
\* these differ; DetermineICERole is opposite whenever the ufrags differ.
C10_OppositeWhenKeysDiffer ==
    /\ (negRole.fn = "dtls" /\ KeysDiffer(negA, negB)) => Opposite(negRole)
    /\ (negRole.fn = "ufrag" /\ negA.ice.ufrag # negB.ice.ufrag) => Opposite(negRole)

\* C10 witness: equal ufrags, the fingerprints decide and A gets Controlling
C10_Witness ==
    /\ negRole.fn = "dtls"
    /\ negA.ice.ufrag = negB.ice.ufrag
    /\ negA.ice.pwd # negB.ice.pwd
    /\ KeysDiffer(negA, negB)
    /\ negRole.ab = "controlling" /\ negRole.ba = "controlled"

\* the two peers tie on the ufrag and on the first DTLS fingerprint
FullTie(a, b) ==
    /\ a.ice.ufrag = b.ice.ufrag
    /\ Len(a.dtls.fps) > 0 /\ Len(b.dtls.fps) > 0
    /\ a.dtls.fps[1] = b.dtls.fps[1]

TargetUntouched ==
    /\ ~rcvFdOpen /\ progress = 0 /\ buf = <<>>
    /\ exitCode["rcv"] = Running

\* C12: with auto-accept off, after a no to the receive prompt or to the
\* overwrite prompt the target is never created, truncated or written, and no
\* message or close handler ever runs on the channel.
C12_DeclineLeavesTarget ==
    /\ [](rcvMode = "declined" =>
              (~autoAccept /\ target \in {NoFile, ExistingFile} /\ TargetUntouched))
    /\ [](rcvMode = "keptExisting" =>
              (~autoAccept /\ target = ExistingFile /\ TargetUntouched))
    /\ [][rcvMode' \in {"declined", "keptExisting"} => target' = target]_vars

\* C12 witness: the overwrite prompt was answered no, datagrams arrived and the
\* channel closed
C12_Witness ==
    /\ rcvMode = "keptExisting"
    /\ inflight # <<>> /\ chan = "closed"

\* the answers as C13 words them, taken letter for letter
LiteralAnswer(line) ==
    IF line \in {<<>>, <<"y">>, <<"y", "e", "s">>} THEN "yes"
    ELSE IF line \in {<<"n">>, <<"n", "o">>} THEN "no"
    ELSE "retry"

\* the answers compared without regard to case and surrounding white space;
\* only the bare newline counts as the empty line
FoldedAnswer(line) ==
    IF line = <<>> THEN "yes"
    ELSE IF ToLower(TrimSpace(line)) \in {<<"y">>, <<"y", "e", "s">>} THEN "yes"
    ELSE IF ToLower(TrimSpace(line)) \in {<<"n">>, <<"n", "o">>} THEN "no"
    ELSE "retry"

\* a call of askForConfirmation follows the reading Answer(_) of the typed
\* lines: at most Tries lines are read, every line before the last one read
\* was asked again, and the result is the answer of the last line, or no
\* after Tries lines without an answer
PromptFollows(Answer(_)) ==
    LET h == ask.heard
        n == Len(ask.heard)
    IN  /\ n <= Tries
        /\ \A i \in 1..(n - 1) : Answer(h[i]) = "retry"
        /\ ask.out = "yes" => (n >= 1 /\ Answer(h[n]) = "yes")
        /\ ask.out = "no" =>
               \/ n >= 1 /\ Answer(h[n]) = "no"
               \/ n = Tries /\ Answer(h[n]) = "retry"
        /\ ask.out = "asking" => (n >= 1 => Answer(h[n]) = "retry")

NoDefaultAnswer(line) == IF line = <<>> THEN "retry" ELSE FoldedAnswer(line)

\* C14: an empty line is not an answer: it uses up one of the 3 attempts and
\* the question is asked again, so three empty lines give false and empty
\* lines followed by 'y' within the limit give true.
C14_EmptyLineAskedAgain == PromptFollows(NoDefaultAnswer)

\* C15: when os.Stat of the receive target fails with an error other than
\* not-found, the receiver terminates with a non-zero exit code; no prompt is
\* shown and no file is created.
C15_StatErrorIsFatal ==
    rcvMode = "statFailed" => (exitCode["rcv"] >= 1 /\ ~rcvFdOpen)

\* C16: once a write of an inbound datagram to the target file has failed, no
\* later datagram is written to the file and the process does not finish with
\* exit code 0.
C16_WriteErrorAborts ==
    /\ [][writeErrSeen => target' = target]_vars
    /\ [](writeErrSeen => exitCode["rcv"] # 0)

\* the receiver took the channel in archive mode and its process has ended
ArchiveEnded == rcvMode = "archive" /\ exitCode["rcv"] # Running

\* the one call of the archive bridge got every inbound datagram in arrival
\* order and the directory named by the label without ".tar.gz"
ExtractedWholeStream ==
    /\ extractLog[1].data = sent
    /\ extractLog[1].dest = <<"cwd">> \o SubSeq(label, 1, Len(label) - 1)

\* C17 as stated: in archive mode nothing is extracted before the channel
\* closes; on close the archive bridge is invoked exactly once, on the
\* concatenation of all inbound datagrams, targeting <cwd>/<label without
\* .tar.gz>, and the process exits 0 only if the extraction succeeded.
C17_ExtractOnceOnClose ==
    /\ (rcvMode = "archive" /\ chan # "closed") => extractLog = <<>>
    /\ ArchiveEnded => (Len(extractLog) = 1 /\ ExtractedWholeStream)
    /\ (ArchiveEnded /\ exitCode["rcv"] = 0) => extractLog[1].ok

\* C17 amended: the bridge is invoked at most once and only after the close;
\* it is invoked exactly once, on the whole stream and the stripped label,
\* unless the working directory cannot be read or the target directory cannot
\* be made, in which case the process exits 1 without extracting; exit code 0
\* exactly when the extraction was invoked and succeeded.
C17_ExtractOnceUnlessNoDirectory ==
    /\ (rcvMode = "archive" /\ chan # "closed") => extractLog = <<>>
    /\ Len(extractLog) <= 1
    /\ Len(extractLog) = 1 => (ArchiveEnded /\ ExtractedWholeStream)
    /\ (ArchiveEnded /\ extractLog = <<>>) => exitCode["rcv"] = 1
    /\ ArchiveEnded =>
           (exitCode["rcv"] = 0 <=> (Len(extractLog) = 1 /\ extractLog[1].ok))

\* C17 witness: a stream of several datagrams was extracted and the process
\* exited 0
C17_Witness ==
    /\ ArchiveEnded /\ exitCode["rcv"] = 0
    /\ Len(extractLog) = 1 /\ extractLog[1].ok
    /\ Len(extractLog[1].data) > ChunkSize

\* C18: when the sender's source path is a directory, the sender does not stop
\* at the source check: it completes the bring-up and opens the channel.
C18_DirectoryIsSent == srcKind = "dir" => failedStep["snd"] # "checkSource"

\* C19: every file handle the sender or the receiver pipeline opened is closed
\* once the pipeline has stopped using it: the sender's after its read loop
\* has ended, and either one's before its process exits.
C19_FileHandlesClosed ==
    /\ sndLoop = "done" => ~sndFdOpen
    /\ exitCode["snd"] # Running => ~sndFdOpen
    /\ exitCode["rcv"] # Running => ~rcvFdOpen

\* what C20 allows the round trip to change: strings longer than 255 bytes
\* are cut, a fingerprint of fewer than 32 bytes is padded with zero bytes
StatedImage(s) ==
    LET cut(x) == Truncate(x, MaxPrefixed)
        pad(f) == LET h == HexDecodeString(StripColons(f.Value))
                  IN  IF ~h.err /\ Len(h.bytes) < fingerprintSize
                      THEN [f EXCEPT !.Value = HexColons(
                               h.bytes \o Zeros(fingerprintSize - Len(h.bytes)))]
                      ELSE f
    IN  [s EXCEPT
           !.ICEParameters.UsernameFragment = cut(@),
           !.ICEParameters.Password = cut(@),
           !.DTLSParameters.Fingerprints = [i \in 1..Len(@) |-> pad(@[i])],
           !.ICECandidates = [i \in 1..Len(@) |->
               [@[i] EXCEPT !.Foundation = cut(@), !.Address = cut(@),
                            !.RelatedAddress = cut(@)]]]

\* C20 as stated: decoding the HTCP encoding of a Signal s yields s, except
\* for fields longer than 255 bytes (truncated) and fingerprints shorter than
\* 32 bytes (zero-padded).
C20_RoundTripIsIdentity ==
    codec.phase = "decoded" =>
        (codec.err = "none" /\ codec.decoded = StatedImage(codec.s))

\* what the wire format carries of a candidate
CarriedCandidate(c) ==
    LET known == c.Typ \in {"srflx", "prflx", "relay"}
        rel   == known /\ c.RelatedAddress # <<>>
    IN  [Foundation |-> Truncate(c.Foundation, MaxPrefixed),
         Priority |-> c.Priority,
         Address |-> Truncate(c.Address, MaxPrefixed),
         Protocol |-> IF c.Protocol = "tcp" THEN "tcp" ELSE "udp",
         Port |-> c.Port,
         Typ |-> IF known THEN c.Typ ELSE "host",
         Component |-> 1,
         RelatedAddress |-> IF rel THEN Truncate(c.RelatedAddress, MaxPrefixed) ELSE <<>>,
         RelatedPort |-> IF rel THEN c.RelatedPort ELSE 0,
         TCPType |-> ""]

\* what the wire format carries of a Signal whose first fingerprint is hex
CarriedSignal(s) ==
    LET fps == s.DTLSParameters.Fingerprints
        raw == IF fps = <<>> THEN <<>> ELSE HexDecodeString(StripColons(fps[1].Value)).bytes
        fp  == SubSeq(raw \o Zeros(fingerprintSize), 1, fingerprintSize)
        n   == Min(Len(s.ICECandidates), MaxPrefixed)
    IN  [ICECandidates |-> [i \in 1..n |-> CarriedCandidate(s.ICECandidates[i])],
         ICEParameters |->
             [UsernameFragment |-> Truncate(s.ICEParameters.UsernameFragment, MaxPrefixed),
              Password |-> Truncate(s.ICEParameters.Password, MaxPrefixed),
              ICELite |-> FALSE],
         DTLSParameters |->
             [Role |-> s.DTLSParameters.Role,
              Fingerprints |-> <<[Algorithm |-> "sha-256", Value |-> HexColons(fp)]>>],
         SCTPCapabilities |-> [MaxMessageSize |-> 0]]

\* C20 amended: encoding fails only on a first fingerprint that is not hex;
\* otherwise decoding the encoding succeeds and yields exactly what the wire
\* format carries of s.
C20_RoundTripKeepsCarriedFields ==
    /\ codec.phase = "encodeFailed" =>
           (codec.s.DTLSParameters.Fingerprints # <<>>
            /\ HexDecodeString(StripColons(
                   codec.s.DTLSParameters.Fingerprints[1].Value)).err)
    /\ codec.phase = "decoded" =>
           (codec.err = "none" /\ codec.decoded = CarriedSignal(codec.s))

\* C20 witness: a Signal with host, srflx and relay candidates came back
\* unchanged
C20_Witness ==
    /\ codec.phase = "decoded" /\ codec.err = "none"
    /\ codec.decoded = codec.s
    /\ Len(codec.s.ICECandidates) = 3

\* the bytes the decoder was given
Plain == Base64Decode(codec.wire).bytes

\* the input is the canonical encoding cut short
CutShort == Len(Plain) < Len(CanonicalBytes) /\ IsPrefix(Plain, CanonicalBytes)

\* C21 as stated: on every byte string the decoder reads nothing past the end
\* of the input, a first byte other than 'H' gives InvalidMagic, a version byte
\* other than 1 gives UnsupportedVersion, and an input that ends before a
\* field does gives InvalidSignal.
C21_DecoderAsStated ==
    /\ codec.phase = "decoding" => codec.off <= Len(codec.data)
    /\ codec.phase = "decoded" =>
          /\ codec.err # "panic"
          /\ Len(Plain) >= 1 /\ Plain[1] # 72 => codec.err = "invalidMagic"
          /\ Len(Plain) >= 2 /\ Plain[1] = 72 /\ Plain[2] # 1
                => codec.err = "unsupportedVersion"
          /\ CutShort /\ Len(Plain) # 1 => codec.err = "invalidSignal"

\* C21, corrected: on every byte string the decoder reads nothing past the end
\* of the input; an input of fewer than two bytes gives InvalidSignal whatever
\* its first byte is; with two bytes or more, a first byte other than 'H' gives
\* InvalidMagic, else a version byte other than 1 gives UnsupportedVersion, else
\* the result is success or InvalidSignal, and InvalidSignal whenever the input
\* ends before a field does.
C21_DecoderChecksEveryRead ==
    /\ codec.phase = "decoding" => codec.off <= Len(codec.data)
    /\ codec.phase = "decoded" =>
          /\ codec.err # "panic"
          /\ Len(Plain) < 2 => codec.err = "invalidSignal"
          /\ Len(Plain) >= 2 /\ Plain[1] # 72 => codec.err = "invalidMagic"
          /\ Len(Plain) >= 2 /\ Plain[1] = 72 /\ Plain[2] # 1
                => codec.err = "unsupportedVersion"
          /\ Len(Plain) >= 2 /\ Plain[1] = 72 /\ Plain[2] = 1
                => codec.err \in {"none", "invalidSignal"}
          /\ CutShort => codec.err = "invalidSignal"

\* the canonical encoding cut inside its second candidate: the first one was
\* decoded, the second one ran out of input
C21_Witness ==
    /\ codec.phase = "decoded"
    /\ CutShort
    /\ Len(codec.decoded.ICECandidates) = 1
    /\ codec.err = "invalidSignal"

\* C22: the public decode hands a blob to the HTCP decoder exactly when the
\* first byte of its plaintext is 'H', so the magic and version checks decide
\* every such blob: a version other than 1 is reported as UnsupportedVersion.
C22_MagicByteSelectsHTCP ==
    codec.phase = "decoded" /\ Len(Plain) >= 1 =>
        /\ codec.via = "htcp" <=> Plain[1] = 72
        /\ Len(Plain) >= 2 /\ Plain[1] = 72 /\ Plain[2] # 1
              => codec.err = "unsupportedVersion"

\* C23: a snapshot never shows fewer transferred bytes than a snapshot that
\* had returned before it was called, under every interleaving of updates with
\* n >= 0 and snapshot reads.
C23_SnapshotsNeverDecrease ==
    [][\A g \in Goroutines :
          prog.mode # "idle" /\ prog.pc[g] \in {"load", "locked", "rlocked"}
                             /\ prog'.pc[g] # prog.pc[g]
              => prog'.snap[g] >= prog.floor[g]]_vars

\* a snapshot that shows more than an earlier one, taken while the other
\* goroutine is between its calls
C23_Witness ==
    /\ prog.mode = "direct"
    /\ prog.snap["g1"] > 0 /\ prog.snap["g2"] > prog.snap["g1"]
    /\ prog.floor["g2"] = prog.snap["g1"]

\* C24: once every update call has returned, transferred-bytes is the sum of
\* the n of all calls, on Progress directly and through Transfer.UpdateProgress
\* interleaved with Status reads.
C24_NoUpdateLost ==
    prog.mode # "idle" /\ (\A g \in Goroutines : prog.pc[g] = "done")
        => prog.transferred = prog.asked

\* all goroutines are done after updates that add up to more than one call
\* can carry, through Transfer
C24_Witness ==
    /\ prog.mode = "transfer"
    /\ \A g \in Goroutines : prog.pc[g] = "done"
    /\ prog.transferred > MaxAmount

PollReturned == poll.phase \in {"returned", "failed", "timedOut"}

\* C25 as stated: for every configured timeout, a call of readSignalFromFile
\* returns: with the signal, with a read error, or, when the file stays missing
\* or empty, with the timeout error.
C25_TimesOutForEveryTimeout == poll.phase = "reading" ~> PollReturned

\* C25, corrected: for every configured timeout above zero the call returns,
\* with the timeout error when the file stays missing or empty, and that error
\* never comes before the timeout has elapsed; each poll after the first follows
\* a tick of the 100 ms ticker. With a timeout of zero or less there is no
\* deadline.
C25_TimesOutWhenTimeoutIsPositive ==
    /\ (poll.phase = "reading" /\ poll.timeout > 0) ~> PollReturned
    /\ [](poll.phase = "timedOut" => poll.timeout > 0 /\ poll.now >= poll.timeout)
    /\ [](poll.phase # "idle" => poll.polls <= poll.now + 1)

\* the file stayed missing or empty for two polls and the call timed out
C25_Witness ==
    poll.phase = "timedOut" /\ poll.polls >= 2 /\ poll.now = poll.timeout

\* the ciphertext of the encrypted input: all but its last 16 bytes
Ciphertext == SubSeq(aes.enc, 1, Len(aes.enc) - aesBlockSize)

\* C26: for every input of S >= 16 bytes and every buffer size >= 1, decrypt
\* feeds the first S-16 bytes to the key stream, in order and nothing else, and
\* writes S-16 bytes; no byte of the IV trailer is decrypted or written.
C26_TrailerNeverDecrypted ==
    /\ aes.phase \in {"decrypting", "decrypted"} =>
          /\ IsPrefix(aes.fed, Ciphertext)
          /\ Len(aes.out) = Len(aes.fed)
    /\ aes.phase = "decrypted" => aes.fed = Ciphertext

\* a read that spans the end of the ciphertext and the start of the trailer
\* has been cut to the ciphertext
C26_Witness ==
    /\ aes.phase = "decrypted"
    /\ aes.bufferSize = 2
    /\ Len(Ciphertext) = 3
    /\ aes.fed = Ciphertext

\* C27: decrypting the file that encrypting data with k produced gives a file
\* whose content is data, for every data, passphrase and buffer size.
C27_RoundTripRestoresData == aes.phase = "decrypted" => aes.dec = aes.data

\* a drive-letter prefix: a letter and a colon
DriveLetter(name) == Len(name) >= 2 /\ name[1] = "a" /\ name[2] = ":"

\* C28 as stated: Metadata validation accepts a filename only if it is a
\* single non-empty path component, so every filename that contains a path
\* separator is rejected like the empty, absolute, dotted, backslashed and
\* drive-letter ones.
C28_AcceptsOnlyASingleComponent ==
    (call.fn = "Validate" /\ call.err = "nil") =>
        /\ call.name # <<>>
        /\ ~Contains(call.name, <<"/">>)
        /\ ~Contains(call.name, DotDot)
        /\ ~Contains(call.name, <<"\\">>)
        /\ ~DriveLetter(call.name)

\* C28 corrected: Metadata validation rejects, with an error, exactly the
\* metadata whose filename is empty, begins with '/', contains '..', contains
\* a backslash or has a colon as its second character, or whose size is
\* negative; a relative filename with a '/' inside, such as a/a, is accepted.
C28_RejectsExactlyTheUnsafeNames ==
    call.fn = "Validate" =>
        (call.err # "nil" <=>
            \/ call.name = <<>>
            \/ call.size < 0
            \/ IsPrefix(<<"/">>, call.name)
            \/ Contains(call.name, DotDot)
            \/ Contains(call.name, <<"\\">>)
            \/ (Len(call.name) >= 2 /\ call.name[2] = ":"))

C28_Witness ==
    /\ call.fn = "Validate"
    /\ call.name = <<"a", "/", "a">>
    /\ call.err = "nil"

\* C29: for every filename, SafeFilename returns a non-empty single path
\* component: never '.', never '..', and without '/' or a backslash.
C29_SafeFilenameIsASingleComponent ==
    call.fn = "SafeFilename" =>
        /\ call.out # <<>>
        /\ call.out # <<".">>
        /\ call.out # DotDot
        /\ ~Contains(call.out, <<"/">>)
        /\ ~Contains(call.out, <<"\\">>)

\* the entry ExtractTarGz is about to read
NextEntry == call.entries[call.next]

AtEntry ==
    call.fn = "ExtractTarGz" /\ call.err = "running" /\ call.next <= Len(call.entries)

\* the entry is refused: extraction returns the error and the pass creates
\* nothing
EntryRefused ==
    /\ call'.err = "invalid path in archive"
    /\ call'.made = {}
    /\ call'.created = call.created

\* C30 as stated: the archive extractor refuses every entry whose path
\* contains '..', is absolute, or contains a drive letter: nothing is created
\* for it and extraction returns an error.
C30_RefusesDotDotAbsoluteAndDriveLetter ==
    [][(AtEntry /\ (\/ Contains(NextEntry.name, DotDot)
                    \/ IsAbs(NextEntry.name)
                    \/ DriveLetter(NextEntry.name)))
        => EntryRefused]_vars

\* C30 corrected: on a Unix build the archive extractor refuses every entry
\* whose path contains '..' or is absolute: no file, directory or symlink is
\* created for it and extraction returns an error. A drive letter is no
\* volume name there, and such an entry is extracted below the destination.
C30_RefusesDotDotAndAbsolute ==
    [][(AtEntry /\ (\/ Contains(NextEntry.name, DotDot)
                    \/ IsAbs(NextEntry.name)))
        => EntryRefused]_vars

C30_Witness ==
    /\ call.fn = "ExtractTarGz"
    /\ call.err = "invalid path in archive"
    /\ call.next = 2
    /\ call.created # {}
    /\ call.made = {}
    /\ Contains(call.name, DotDot)

\* StartReceive is in progress, or has returned, with metadata that fails
\* validation
InvalidReceive ==
    /\ prog.mode = "machine"
    /\ prog.op.fn = "StartReceive"
    /\ Validate(prog.op.metadata.name, prog.op.metadata.size) # "nil"

\* C31: StartReceive with metadata that fails validation returns the
\* validation error and leaves the Transfer in state Failed; it installs no
\* metadata and no progress tracker, calls no callback, and at no point of
\* the call does the Transfer enter Transferring.
C31_InvalidReceiveFails ==
    InvalidReceive =>
        /\ <<prog.metadata, prog.progress>> = prog.had
        /\ prog.delivered = <<>>
        /\ prog.state = StateTransferring =>
               (prog.before = StateTransferring /\ prog.pc \in {"lock", "body"})
        /\ prog.pc = "idle" =>
               /\ prog.state = StateFailed
               /\ prog.ret = Validate(prog.op.metadata.name, prog.op.metadata.size)
               /\ prog.err = prog.ret

C31_Witness ==
    /\ InvalidReceive
    /\ prog.pc = "idle"
    /\ prog.op.metadata.name = <<".", ".", "/", "a">>
    /\ prog.callback = "counter"
    /\ prog.state = StateFailed
    /\ prog.had = <<<<>>, <<>>>>

\* a call has returned while a callback was registered
ReturnedWithCallback ==
    /\ prog.mode = "machine"
    /\ prog.pc = "idle"
    /\ prog.op.fn \notin {"none", "SetProgressCallback", "Status"}
    /\ prog.callback # "nil"

\* C32: whenever an operation changes the Transfer's state, the registered
\* progress callback is invoked once with a status carrying the new state.
C32_StateChangeNotified ==
    (ReturnedWithCallback /\ prog.state # prog.before) =>
        prog.delivered = <<prog.state>>

\* Idle -> Metadata -> Transferring -> Verifying -> Complete, and Failed from
\* any state that is not terminal
Forward(from, to) ==
    /\ from \notin {StateComplete, StateFailed}
    /\ \/ to = StateFailed
       \/ (to # StateFailed /\ to > from)

\* C35: the Transfer state only moves forward along Idle -> Metadata ->
\* Transferring -> Verifying -> Complete, with Failed reachable from any
\* non-terminal state; once it is Complete or Failed no later call changes it.
C35_StateOnlyMovesForward ==
    [][(prog.mode = "machine" /\ prog'.state # prog.state)
        => Forward(prog.state, prog'.state)]_vars

\* C36: a progress callback that reads the same Transfer from inside the
\* callback does not deadlock: every call that has started returns.
C36_EveryCallReturns ==
    (prog.mode = "machine" /\ prog.pc # "idle") ~> (prog.pc = "idle")

\* C33: for every channel label chosen by the remote peer, the file or
\* directory the receiver creates lies inside the receiver's current working
\* directory.
C33_CreatedInsideWorkingDirectory ==
    call.fn = "FileTransferHandler" =>
        \A p \in call.made : Inside(Cwd, p) \/ p = Cwd

\* C34: a peer running in sender mode never accepts an inbound data channel:
\* whatever channel the remote peer opens, the sender creates no local file
\* and shows no receive prompt.
C34_SenderIgnoresInboundChannels ==
    (call.fn = "FileTransferHandler" /\ call.isOffer) =>
        (call.made = {} /\ ~call.prompted)

\* C37: while one process writes its signal with writeSignalToFile and the
\* peer polls the same path with readSignalFromFile, the reader returns the
\* complete signal as written or nothing yet, never a proper prefix of it.
C37_ReaderSeesWholeSignal ==
    (poll.phase = "shared" /\ poll.rpc = "returned") => poll.got = poll.signal

\* C38: when both the receive prompt and the overwrite prompt are asked, the
\* overwrite prompt gets the stdin line that follows the line that answered
\* the receive prompt: no line is lost between the two prompts, and the
\* overwrite prompt meets the end of input only if no line follows.
C38_NoLineLostBetweenPrompts ==
    (call.fn = "askForConfirmation" /\ call.prompt = "overwrite") =>
        /\ call.firstAt # 0 => call.firstAt = call.receiveAt + 1
        /\ (call.out = "fatal" /\ call.firstAt = 0) =>
               call.receiveAt = Len(call.stdin)

\* C39: for every archive, also one with a symlink entry followed by an
\* entry whose path passes through that symlink, extraction creates or
\* modifies no file outside the destination directory.
C39_ExtractionStaysInDestination ==
    call.fn = "ExtractTarGz" =>
        \A p \in call.created : Inside(DestPath, p) \/ p = DestPath

\* C40: in the TUI model StateDone and StateError are terminal: once the
\* state is Done or Error, no later message changes it.
C40_DoneAndErrorAreTerminal ==
    [][(call.fn = "tui" /\ call.m.state \in {StateDone, StateError})
        => call'.m.state = call.m.state]_vars

====
